---- MODULE Spec2Model ----
(***************************************************************************)
(* Scheduling-and-trade-off engine of the dashboard:                       *)
(*   data/schemas.py          cost model, instance catalog entries         *)
(*   simulation/scheduler.py  schedule_lpt (LPT on a min-heap)             *)
(*   optimization/pareto.py   sweeps and the dominance engine              *)
(*                                                                         *)
(* Numbers.  Durations are whole seconds.  Dollar amounts are exact        *)
(* rationals kept as numerators over SecPerHour: the code computes         *)
(*   (processing / 3600.0) * rate + transfer_cost                          *)
(* and the model keeps  processing * rate + 3600 * transfer_cost,          *)
(* i.e. 3600 times the same quantity, so that no rounding is introduced.   *)
(* Money is counted in thousandths of a dollar (0.526 $/h is 526).         *)
(* An Optional[...] value is <<>> for None and <<v>> for a present v.      *)
(***************************************************************************)
EXTENDS Integers, Sequences, FiniteSets, TLC

VARIABLES
    pc,                   \* position of the running call
    events,               \* schedule_lpt / sweep argument: the job list
    on_prem_gpus,         \* site.available_gpus
    cloud_containers,     \* schedule_lpt argument
    cloud_model,          \* CloudCostModel
    track_assignments,    \* schedule_lpt argument
    sorted_events,        \* scheduler.py:52, the part not yet placed
    heap,                 \* scheduler.py:56, set of <<load, proc_id, is_cloud>>
    cloud_event_count,    \* scheduler.py:62
    on_prem_event_count,  \* scheduler.py:63
    total_cloud_cost,     \* scheduler.py:64 (numerator over SecPerHour)
    assignments,          \* scheduler.py:65, None or the list of EventAssignment
    result,               \* the value returned (None while running or raised)
    instance,             \* InstanceType argument of from_instance
    pricing,              \* pricing tier argument of from_instance
    on_prem_time_sec,     \* argument of event_cloud_time_for / event_cloud_cost_for
    instance_types,       \* generate_multi_instance_sweep argument
    pricing_modes,        \* generate_multi_instance_sweep argument
    max_cloud_containers, \* sweep argument
    step,                 \* sweep argument
    c,                    \* sweep loop variable (pareto.py:200, 231)
    inst_i,               \* index of the instance loop (pareto.py:225)
    pricing_j,            \* index of the pricing loop (pareto.py:227)
    points,               \* the list a sweep accumulates (pareto.py:198, 223)
    pareto_points,        \* find_optimal_configuration argument (pareto.py:142)
    cost_weight,          \* find_optimal_configuration argument, in twentieths
    calls,                \* the locals of each of several schedule_lpt invocations
    raw_events,           \* load_onprem_results: the rows read (loaders.py:117)
    min_processing_time,  \* load_onprem_results argument
    row_i                 \* number of rows the loader has gone through

vars == <<pc, events, on_prem_gpus, cloud_containers, cloud_model,
          track_assignments, sorted_events, heap, cloud_event_count,
          on_prem_event_count, total_cloud_cost, assignments, result,
          instance, pricing, on_prem_time_sec, instance_types, pricing_modes,
          max_cloud_containers, step, c, inst_i, pricing_j, points,
          pareto_points, cost_weight, calls, raw_events, min_processing_time,
          row_i>>

schedVars == <<events, on_prem_gpus, cloud_containers, cloud_model,
               track_assignments, sorted_events, heap, cloud_event_count,
               on_prem_event_count, total_cloud_cost, assignments>>

costVars == <<instance, pricing, on_prem_time_sec>>

sweepVars == <<instance_types, pricing_modes, max_cloud_containers, step, c,
               inst_i, pricing_j, points>>

paretoVars == <<pareto_points, cost_weight>>

concVars == <<calls>>

ingestVars == <<raw_events, min_processing_time, row_i>>

----------------------------------------------------------------------------
(* Bounds of the explored input space *)

MaxJobs == 3
MaxDur == 2
MaxGpus == 2
MaxCloud == 2

SecPerHour == 3600

None == <<>>
Some(v) == <<v>>
Val(o) == o[1]

Max2(a, b) == IF a >= b THEN a ELSE b

RECURSIVE SumSeq(_)
SumSeq(s) == IF s = <<>> THEN 0 ELSE Head(s) + SumSeq(Tail(s))

SeqsUpTo(S, n) == UNION {[1..k -> S] : k \in 0..n}

----------------------------------------------------------------------------
(* data/schemas.py: Event, CloudCostModel *)

\* Event: processing_time_sec is Field(gt=0); event_name identifies the record;
\* event_type and fps are only passed through to the assignments.
\* faulty variant: ge=0 for gt=0
EventValid_NonNegative(t) == t >= 0

\* schemas.py:51: processing_time_sec: float = Field(..., gt=0)
EventValid(t) == t > 0

Event(name, type, t) ==
    [event_name |-> name, event_type |-> type, processing_time_sec |-> t, fps |-> None]

\* the job list with durations durs: names are the positions, the category
\* tag alternates
MakeEvents(durs) ==
    [i \in 1..Len(durs) |->
        Event(i, IF i % 2 = 0 THEN "Pitching" ELSE "Batting", durs[i])]

CloudCostModel(rate, spot, useSpot, fixedTime, startup, xferSec, xferCost, ratio, itype, tier) ==
    [instance_type |-> itype,
     cost_per_hour |-> rate,
     spot_cost_per_hour |-> spot,
     use_spot |-> useSpot,
     cloud_time_per_event_sec |-> fixedTime,
     container_startup_sec |-> startup,
     data_transfer_sec_per_event |-> xferSec,
     data_transfer_cost_per_event |-> xferCost,
     ratio |-> ratio,
     pricing_tier |-> tier]

effective_cost_per_hour(m) ==
    IF m.use_spot /\ m.spot_cost_per_hour # None
    THEN Val(m.spot_cost_per_hour)
    ELSE m.cost_per_hour

\* faulty variant: the start-up overhead charged on every job, as in event_cloud_time
event_cloud_time_for_WithStartup(m, t) ==
    LET processing == IF m.ratio # None THEN Val(m.ratio) * t
                      ELSE m.cloud_time_per_event_sec
    IN processing + m.container_startup_sec + m.data_transfer_sec_per_event

event_cloud_time_for(m, t) ==
    LET processing == IF m.ratio # None THEN Val(m.ratio) * t
                      ELSE m.cloud_time_per_event_sec
    IN processing + m.data_transfer_sec_per_event

\* faulty variant: the transfer seconds billed at the hourly rate
event_cloud_cost_for_BillsTransfer(m, t) ==
    LET processing == IF m.ratio # None THEN Val(m.ratio) * t
                      ELSE m.cloud_time_per_event_sec
    IN (processing + m.data_transfer_sec_per_event) * effective_cost_per_hour(m)
         + SecPerHour * m.data_transfer_cost_per_event

\* numerator over SecPerHour of the dollar amount
event_cloud_cost_for(m, t) ==
    LET processing == IF m.ratio # None THEN Val(m.ratio) * t
                      ELSE m.cloud_time_per_event_sec
    IN processing * effective_cost_per_hour(m)
         + SecPerHour * m.data_transfer_cost_per_event

\* legacy fixed-time mode, start-up included
event_cloud_time(m) ==
    m.cloud_time_per_event_sec + m.container_startup_sec
      + m.data_transfer_sec_per_event

event_cloud_cost(m) ==
    (m.cloud_time_per_event_sec + m.container_startup_sec)
        * effective_cost_per_hour(m)
      + SecPerHour * m.data_transfer_cost_per_event

\* field defaults of CloudCostModel (schemas.py:84-93)
DefaultSpotCostPerHour == 160
DefaultCloudTimePerEventSec == 1378
DefaultContainerStartupSec == 30
DefaultDataTransferSecPerEvent == 0
DefaultDataTransferCostPerEvent == 20

----------------------------------------------------------------------------
(* data/schemas.py: InstanceType, CloudCostModel.from_instance *)

PricingTiers == {"ondemand", "spot", "1yr_ri", "3yr_ri"}

InstanceType(name, gpu, ondemand, spot, ri1, ri3, ratio) ==
    [name |-> name, gpu |-> gpu,
     rate_ondemand |-> ondemand, rate_spot |-> spot,
     rate_1yr_ri |-> ri1, rate_3yr_ri |-> ri3,
     ratio |-> ratio, has_real_data |-> FALSE]

\* Optional[float]: None for a tier the instance does not offer
rate_for_pricing(inst, tier) ==
    CASE tier = "ondemand" -> Some(inst.rate_ondemand)
      [] tier = "spot" -> Some(inst.rate_spot)
      [] tier = "1yr_ri" -> inst.rate_1yr_ri
      [] tier = "3yr_ri" -> inst.rate_3yr_ri

\* faulty variant: every tier reported as offered
available_pricing_All(inst) == <<"ondemand", "spot", "1yr_ri", "3yr_ri">>

available_pricing(inst) ==
    <<"ondemand", "spot">>
      \o (IF inst.rate_1yr_ri # None THEN <<"1yr_ri">> ELSE <<>>)
      \o (IF inst.rate_3yr_ri # None THEN <<"3yr_ri">> ELSE <<>>)

InSeq(x, s) == \E i \in 1..Len(s) : s[i] = x

\* faulty variant: a missing or zero rate is replaced by a zero rate
from_instance_ZeroRate(inst, tier) ==
    LET rate == rate_for_pricing(inst, tier)
    IN Some(CloudCostModel(IF rate = None THEN 0 ELSE Val(rate),
                           Some(DefaultSpotCostPerHour), FALSE,
                           DefaultCloudTimePerEventSec, DefaultContainerStartupSec,
                           DefaultDataTransferSecPerEvent,
                           DefaultDataTransferCostPerEvent,
                           Some(inst.ratio), inst.name, Some(tier)))

\* None stands for the ValueError of schemas.py:149
from_instance(inst, tier) ==
    LET rate == rate_for_pricing(inst, tier)
    IN IF rate = None THEN None
       ELSE Some(CloudCostModel(Val(rate), Some(DefaultSpotCostPerHour), FALSE,
                                DefaultCloudTimePerEventSec, DefaultContainerStartupSec,
                                DefaultDataTransferSecPerEvent,
                                DefaultDataTransferCostPerEvent,
                                Some(inst.ratio), inst.name, Some(tier)))

----------------------------------------------------------------------------
(* simulation/scheduler.py: schedule_lpt *)

\* sorted(events, key=processing_time_sec, reverse=True): stable, so equal
\* durations keep their input order.
RECURSIVE InsertDesc(_, _)
InsertDesc(s, e) ==
    IF s = <<>> THEN <<e>>
    ELSE IF Head(s).processing_time_sec >= e.processing_time_sec
         THEN <<Head(s)>> \o InsertDesc(Tail(s), e)
         ELSE <<e>> \o s

\* faulty variant: reverse=True forgotten, shortest job first
RECURSIVE InsertAsc(_, _)
InsertAsc(s, e) ==
    IF s = <<>> THEN <<e>>
    ELSE IF Head(s).processing_time_sec <= e.processing_time_sec
         THEN <<Head(s)>> \o InsertAsc(Tail(s), e)
         ELSE <<e>> \o s

RECURSIVE SortedAsc(_)
SortedAsc(s) ==
    IF s = <<>> THEN <<>>
    ELSE InsertAsc(SortedAsc(SubSeq(s, 1, Len(s) - 1)), s[Len(s)])

RECURSIVE SortedDesc(_)
SortedDesc(s) ==
    IF s = <<>> THEN <<>>
    ELSE InsertDesc(SortedDesc(SubSeq(s, 1, Len(s) - 1)), s[Len(s)])

\* faulty variant: among equal loads the higher processor index comes first
TupleLess_HighIndexFirst(a, b) ==
    \/ a[1] < b[1]
    \/ a[1] = b[1] /\ a[2] > b[2]

\* Python tuple order on (load, proc_id, is_cloud)
TupleLess(a, b) ==
    \/ a[1] < b[1]
    \/ a[1] = b[1] /\ a[2] < b[2]
    \/ a[1] = b[1] /\ a[2] = b[2] /\ a[3] = FALSE /\ b[3] = TRUE

\* faulty variant: the entry of the lowest processor index, whatever its load
HeapMin_ByIndex(h) == CHOOSE e \in h : \A f \in h : e[2] <= f[2]

\* heapq.heappop: the smallest entry
HeapMin(h) == CHOOSE e \in h : \A f \in h : f = e \/ TupleLess(e, f)

\* faulty variant: elastic processors start empty, the start-up overhead is lost
InitialHeap_NoStartup(gpus, containers, m) ==
    {<<0, i, FALSE>> : i \in 0..(gpus - 1)}
      \cup {<<0, gpus + i, TRUE>> : i \in 0..(containers - 1)}

\* scheduler.py:56-60
InitialHeap(gpus, containers, m) ==
    {<<0, i, FALSE>> : i \in 0..(gpus - 1)}
      \cup {<<m.container_startup_sec, gpus + i, TRUE>> : i \in 0..(containers - 1)}

\* faulty variant: every record is labelled on_prem
EventAssignment_LabelOnPrem(e, isCloud, procId, eventTime) ==
    [event_name |-> e.event_name,
     event_type |-> e.event_type,
     processing_time_sec |-> e.processing_time_sec,
     fps |-> e.fps,
     assigned_to |-> "on_prem",
     processor_id |-> procId,
     effective_time_sec |-> eventTime]

EventAssignment(e, isCloud, procId, eventTime) ==
    [event_name |-> e.event_name,
     event_type |-> e.event_type,
     processing_time_sec |-> e.processing_time_sec,
     fps |-> e.fps,
     assigned_to |-> IF isCloud THEN "cloud" ELSE "on_prem",
     processor_id |-> procId,
     effective_time_sec |-> eventTime]

\* scheduler.py:62-65: the loop state before the first event
LoopStart(gpus, containers, m, track) ==
    [heap |-> InitialHeap(gpus, containers, m),
     cloud_event_count |-> 0,
     on_prem_event_count |-> 0,
     total_cloud_cost |-> 0,
     assignments |-> IF track THEN Some(<<>>) ELSE None]

\* scheduler.py:67-89: one iteration of the placement loop
PlaceEvent(st, e, m) ==
    LET top == HeapMin(st.heap)
        load == top[1]
        proc_id == top[2]
        is_cloud == top[3]
        event_time == IF is_cloud
                      THEN event_cloud_time_for(m, e.processing_time_sec)
                      ELSE e.processing_time_sec
    IN [heap |-> (st.heap \ {top}) \cup {<<load + event_time, proc_id, is_cloud>>},
        cloud_event_count |-> st.cloud_event_count + (IF is_cloud THEN 1 ELSE 0),
        on_prem_event_count |-> st.on_prem_event_count + (IF is_cloud THEN 0 ELSE 1),
        total_cloud_cost |-> st.total_cloud_cost
            + (IF is_cloud THEN event_cloud_cost_for(m, e.processing_time_sec) ELSE 0),
        assignments |-> IF st.assignments # None
                        THEN Some(Append(Val(st.assignments),
                                  EventAssignment(e, is_cloud, proc_id, event_time)))
                        ELSE None]

RECURSIVE MaxLoad(_)
MaxLoad(h) ==
    IF h = {} THEN 0
    ELSE LET e == HeapMin(h) IN Max2(e[1], MaxLoad(h \ {e}))

\* faulty variant: cloud_finish_sec is taken over every processor
BatchResult_CloudFinishAll(st, gpus, containers, nEvents) ==
    [config_id |-> <<"G", gpus, "_C", containers>>,
     on_prem_gpus |-> gpus,
     cloud_containers |-> containers,
     total_events |-> nEvents,
     cloud_cost |-> st.total_cloud_cost,
     turnaround_time_sec |-> MaxLoad(st.heap),
     events_on_prem |-> st.on_prem_event_count,
     events_on_cloud |-> st.cloud_event_count,
     on_prem_finish_sec |-> MaxLoad({e \in st.heap : ~e[3]}),
     cloud_finish_sec |-> MaxLoad(st.heap),
     assignments |-> st.assignments]

\* scheduler.py:91-118: drain the heap and build the BatchResult
BatchResult(st, gpus, containers, nEvents) ==
    [config_id |-> <<"G", gpus, "_C", containers>>,
     on_prem_gpus |-> gpus,
     cloud_containers |-> containers,
     total_events |-> nEvents,
     cloud_cost |-> st.total_cloud_cost,
     turnaround_time_sec |-> MaxLoad(st.heap),
     events_on_prem |-> st.on_prem_event_count,
     events_on_cloud |-> st.cloud_event_count,
     on_prem_finish_sec |-> MaxLoad({e \in st.heap : ~e[3]}),
     cloud_finish_sec |-> MaxLoad({e \in st.heap : e[3]}),
     assignments |-> st.assignments]

RECURSIVE PlaceAll(_, _, _)
PlaceAll(st, evs, m) ==
    IF evs = <<>> THEN st
    ELSE PlaceAll(PlaceEvent(st, Head(evs), m), Tail(evs), m)

\* faulty variant: the check only catches a negative processor count
NoProcessor_Negative(gpus, containers) == gpus + containers < 0

\* scheduler.py:48: the configuration check
NoProcessor(gpus, containers) == gpus + containers = 0

\* the whole call, for callers that run it to completion;
\* None stands for the ValueError of scheduler.py:49
schedule_lpt(evs, gpus, containers, m, track) ==
    IF NoProcessor(gpus, containers) THEN None
    ELSE Some(BatchResult(PlaceAll(LoopStart(gpus, containers, m, track),
                                   SortedDesc(evs), m),
                          gpus, containers, Len(evs)))

----------------------------------------------------------------------------
(* optimization/pareto.py: sweeps *)

\* faulty variant: weak dominance, the strict improvement is not required
is_dominated_Weak(point, other) ==
    other[1] <= point[1] /\ other[2] <= point[2]

\* pareto.py:11-26: point is dominated by other
is_dominated(point, other) ==
    LET cost_better_or_equal == other[1] <= point[1]
        time_better_or_equal == other[2] <= point[2]
        strictly_better == other[1] < point[1] \/ other[2] < point[2]
    IN cost_better_or_equal /\ time_better_or_equal /\ strictly_better

\* faulty variant: the upper end of the range is left out, range(0, max, step)
RangeDone_Exclusive(k, max) == k >= max

\* range(0, max_cloud_containers + 1, step) is exhausted at k
RangeDone(k, max) == k > max

\* faulty variant: cost and time change places in the tuple
SweepTuple_TimeFirst(r, k) == <<r.config_id, r.turnaround_time_sec, r.cloud_cost, k>>

\* pareto.py:202: the tuple of one swept configuration
SweepTuple(r, k) == <<r.config_id, r.cloud_cost, r.turnaround_time_sec, k>>

\* pareto.py:233-241
MultiTuple(r, inst, tier, k) ==
    <<<<inst.gpu, "_", tier, "_C", k>>, r.cloud_cost, r.turnaround_time_sec,
      inst.name, tier, k>>

----------------------------------------------------------------------------
(* optimization/pareto.py: the dominance passes                            *)
(*                                                                         *)
(* Costs and times of the passes are whole numbers of an arbitrary unit.   *)
(* config_id is kept as the tuple it was built from.                       *)

\* pareto.py:53-56: the (cost, time) pair of a tuple
CostTime(pt) == <<pt[2], pt[3]>>

\* schemas.py:200-212
ParetoPoint(config_id, cost, time, cc, optimal, inst, tier) ==
    [config_id |-> config_id, cost |-> cost, time |-> time,
     cloud_containers |-> cc, is_pareto_optimal |-> optimal,
     instance_type |-> inst, pricing_tier |-> tier]

\* faulty variant: a point is compared with the points before it only
DominatedByAnother_EarlierOnly(pts, i) ==
    \E j \in 1..(i - 1) : is_dominated(CostTime(pts[i]), CostTime(pts[j]))

\* pareto.py:49-58: the inner loop over j # i finds a point dominating
\* points[i].  (pareto_optimal[i] is written in iteration i only, so the
\* test of line 45 never skips an iteration.)
DominatedByAnother(pts, i) ==
    \E j \in 1..Len(pts) :
        j # i /\ is_dominated(CostTime(pts[i]), CostTime(pts[j]))

\* pareto.py:29-72: tuples are (config_id, cost, time) or
\* (config_id, cost, time, cloud_containers)
compute_pareto_frontier(pts) ==
    [i \in 1..Len(pts) |->
        ParetoPoint(pts[i][1], pts[i][2], pts[i][3],
                    IF Len(pts[i]) > 3 THEN pts[i][4] ELSE 0,
                    ~DominatedByAnother(pts, i), None, None)]

\* faulty variant: strictly better on both axes is demanded (& for |)
Dominates_BothStrict(costs, times, i) ==
    {j \in 1..Len(costs) :
        /\ costs[j] <= costs[i]
        /\ times[j] <= times[i]
        /\ (costs[j] < costs[i] /\ times[j] < times[i])} \ {i}

\* pareto.py:97-102 and 263-270: the indices set in the boolean array
\* dominates, after dominates[i] = False
Dominates(costs, times, i) ==
    {j \in 1..Len(costs) :
        /\ costs[j] <= costs[i]
        /\ times[j] <= times[i]
        /\ (costs[j] < costs[i] \/ times[j] < times[i])} \ {i}

\* pareto.py:75-118
compute_pareto_frontier_numpy(costs, times, config_ids) ==
    [i \in 1..Len(costs) |->
        ParetoPoint(config_ids[i], costs[i], times[i], 0,
                    Dominates(costs, times, i) = {}, None, None)]

\* faulty variant: the elastic-pool size of the tuple is not carried over
compute_pareto_frontier_multi_DropsSize(pts) ==
    LET costs == [i \in 1..Len(pts) |-> pts[i][2]]
        times == [i \in 1..Len(pts) |-> pts[i][3]]
    IN [i \in 1..Len(pts) |->
           ParetoPoint(pts[i][1], pts[i][2], pts[i][3], 0,
                       Dominates(costs, times, i) = {},
                       Some(pts[i][4]), Some(pts[i][5]))]

\* pareto.py:246-288: tuples are (config_id, cost, time, instance_name,
\* pricing) or the same with cloud_containers appended
compute_pareto_frontier_multi(pts) ==
    LET costs == [i \in 1..Len(pts) |-> pts[i][2]]
        times == [i \in 1..Len(pts) |-> pts[i][3]]
    IN [i \in 1..Len(pts) |->
           ParetoPoint(pts[i][1], pts[i][2], pts[i][3],
                       IF Len(pts[i]) > 5 THEN pts[i][6] ELSE 0,
                       Dominates(costs, times, i) = {},
                       Some(pts[i][4]), Some(pts[i][5]))]

----------------------------------------------------------------------------
(* optimization/pareto.py: find_optimal_configuration                      *)
(*                                                                         *)
(* cost_weight is a number of twentieths (the step of the page's slider).  *)
(* A score is kept exactly.  With e = 1e-10, cr and tr the widths of the   *)
(* two ranges, dc and dt the distances of a point from the two minima and  *)
(* w = cost_weight, the code computes                                      *)
(*     w * dc / (cr + e) + (1 - w) * dt / (tr + e).                        *)
(* Multiplied by the positive factor (cr + e) * (tr + e) / e, the same for *)
(* every point of one call, this is                                        *)
(*     (w * dc * tr + (1 - w) * dt * cr) / e  +  (w * dc + (1 - w) * dt).  *)
(* On whole-number costs and times below 1/e the second term is smaller    *)
(* than one unit of the first, so scores compare as the pairs              *)
(*     << w * dc * tr + (1 - w) * dt * cr,  w * dc + (1 - w) * dt >>       *)
(* compare lexicographically.                                              *)

WeightDen == 20

SeqMin(s) == CHOOSE x \in {s[i] : i \in 1..Len(s)} : \A i \in 1..Len(s) : x <= s[i]
SeqMax(s) == CHOOSE x \in {s[i] : i \in 1..Len(s)} : \A i \in 1..Len(s) : x >= s[i]

\* faulty variant: the two weights are exchanged
calculate_weighted_score_Swapped(cost, time, w, cost_range, time_range) ==
    LET time_weight == w
        dc == cost - cost_range[1]
        dt == time - time_range[1]
        cr == cost_range[2] - cost_range[1]
        tr == time_range[2] - time_range[1]
    IN <<(WeightDen - w) * dc * tr + time_weight * dt * cr,
         (WeightDen - w) * dc + time_weight * dt>>

\* faulty variant: an axis of zero width counts as 1 for every point
calculate_weighted_score_DegenerateOne(cost, time, w, cost_range, time_range) ==
    LET time_weight == WeightDen - w
        dc == cost - cost_range[1]
        dt == time - time_range[1]
        cr == cost_range[2] - cost_range[1]
        tr == time_range[2] - time_range[1]
        cn == IF cr = 0 THEN 1 ELSE dc
        tn == IF tr = 0 THEN 1 ELSE dt
    IN <<w * cn * tr + time_weight * tn * cr, w * cn + time_weight * tn>>

\* pareto.py:121-138
calculate_weighted_score(cost, time, w, cost_range, time_range) ==
    LET time_weight == WeightDen - w
        dc == cost - cost_range[1]
        dt == time - time_range[1]
        cr == cost_range[2] - cost_range[1]
        tr == time_range[2] - time_range[1]
    IN <<w * dc * tr + time_weight * dt * cr, w * dc + time_weight * dt>>

\* score a < score b
ScoreLess(a, b) == a[1] < b[1] \/ (a[1] = b[1] /\ a[2] < b[2])

\* faulty variant: every point is kept, flagged or not
OptimalOnly_All(pp) == pp

\* pareto.py:154
OptimalOnly(pp) == SelectSeq(pp, LAMBDA p : p.is_pareto_optimal)

\* faulty variant: no fallback point
Fallback_None(pp) == None

\* pareto.py:155-157
Fallback(pp) == IF pp # <<>> THEN Some(pp[1]) ELSE None

\* pareto.py:166-174: the loop over optimal_only from index k on; best is
\* the index of best_point, 0 while best_point is None and best_score inf
RECURSIVE BestFrom(_, _, _, _, _, _)
BestFrom(optimal_only, k, best, w, cost_range, time_range) ==
    IF k > Len(optimal_only) THEN best
    ELSE LET score(n) ==
                 calculate_weighted_score(optimal_only[n].cost,
                     optimal_only[n].time, w, cost_range, time_range)
             better == best = 0 \/ ScoreLess(score(k), score(best))
         IN BestFrom(optimal_only, k + 1, IF better THEN k ELSE best,
                     w, cost_range, time_range)

\* pareto.py:141-176
find_optimal_configuration(pp, w) ==
    LET optimal_only == OptimalOnly(pp)
    IN IF optimal_only = <<>>
       THEN Fallback(pp)
       ELSE LET costs == [i \in 1..Len(optimal_only) |-> optimal_only[i].cost]
                times == [i \in 1..Len(optimal_only) |-> optimal_only[i].time]
                cost_range == <<SeqMin(costs), SeqMax(costs)>>
                time_range == <<SeqMin(times), SeqMax(times)>>
            IN Some(optimal_only[BestFrom(optimal_only, 1, 0, w,
                                          cost_range, time_range)])

----------------------------------------------------------------------------
(* Specification Spec: one schedule_lpt call, one heap operation at a time *)

Ratios == {None, Some(1), Some(3)}
Startups == {0, 2}
TransferSecs == {0, 1}
SpotChoices == {<<None, TRUE>>, <<Some(1), TRUE>>, <<Some(1), FALSE>>}

SchedModels ==
    {CloudCostModel(2, sp[1], sp[2], 4, s, x, 1, r, "g4dn.xlarge", None) :
        sp \in SpotChoices, s \in Startups, x \in TransferSecs, r \in Ratios}

StateOf ==
    [heap |-> heap,
     cloud_event_count |-> cloud_event_count,
     on_prem_event_count |-> on_prem_event_count,
     total_cloud_cost |-> total_cloud_cost,
     assignments |-> assignments]

IdleCost ==
    /\ instance = None /\ pricing = None /\ on_prem_time_sec = 0

IdleSweep ==
    /\ instance_types = <<>> /\ pricing_modes = <<>>
    /\ max_cloud_containers = 0 /\ step = 1 /\ c = 0
    /\ inst_i = 0 /\ pricing_j = 0 /\ points = <<>>

IdlePareto ==
    /\ pareto_points = <<>> /\ cost_weight = 0

IdleConc ==
    /\ calls = <<>>

IdleIngest ==
    /\ raw_events = <<>> /\ min_processing_time = 0 /\ row_i = 0

Init ==
    /\ IdlePareto
    /\ IdleConc
    /\ IdleIngest
    /\ pc = "call"
    /\ events \in {MakeEvents(d) : d \in SeqsUpTo(1..MaxDur, MaxJobs)}
    /\ on_prem_gpus \in 0..MaxGpus
    /\ cloud_containers \in 0..MaxCloud
    /\ cloud_model \in SchedModels
    /\ track_assignments \in BOOLEAN
    /\ sorted_events = <<>>
    /\ heap = {}
    /\ cloud_event_count = 0
    /\ on_prem_event_count = 0
    /\ total_cloud_cost = 0
    /\ assignments = None
    /\ result = None
    /\ IdleCost
    /\ IdleSweep

\* scheduler.py:45-49: no processor at all
Raise ==
    /\ pc = "call"
    /\ NoProcessor(on_prem_gpus, cloud_containers)
    /\ pc' = "raised"
    /\ UNCHANGED paretoVars
    /\ UNCHANGED <<concVars, ingestVars>>
    /\ UNCHANGED <<schedVars, result, costVars, sweepVars>>

\* scheduler.py:51-65
Start ==
    /\ pc = "call"
    /\ ~NoProcessor(on_prem_gpus, cloud_containers)
    /\ LET st == LoopStart(on_prem_gpus, cloud_containers, cloud_model, track_assignments)
       IN /\ heap' = st.heap
          /\ cloud_event_count' = st.cloud_event_count
          /\ on_prem_event_count' = st.on_prem_event_count
          /\ total_cloud_cost' = st.total_cloud_cost
          /\ assignments' = st.assignments
    /\ sorted_events' = SortedDesc(events)
    /\ pc' = "loop"
    /\ UNCHANGED paretoVars
    /\ UNCHANGED <<concVars, ingestVars>>
    /\ UNCHANGED <<events, on_prem_gpus, cloud_containers, cloud_model,
                   track_assignments, result, costVars, sweepVars>>

\* scheduler.py:67-89
Place ==
    /\ pc = "loop"
    /\ sorted_events # <<>>
    /\ LET st == PlaceEvent(StateOf, Head(sorted_events), cloud_model)
       IN /\ heap' = st.heap
          /\ cloud_event_count' = st.cloud_event_count
          /\ on_prem_event_count' = st.on_prem_event_count
          /\ total_cloud_cost' = st.total_cloud_cost
          /\ assignments' = st.assignments
    /\ sorted_events' = Tail(sorted_events)
    /\ UNCHANGED paretoVars
    /\ UNCHANGED <<concVars, ingestVars>>
    /\ UNCHANGED <<pc, events, on_prem_gpus, cloud_containers, cloud_model,
                   track_assignments, result, costVars, sweepVars>>

\* scheduler.py:91-118
Return ==
    /\ pc = "loop"
    /\ sorted_events = <<>>
    /\ result' = Some(BatchResult(StateOf, on_prem_gpus, cloud_containers, Len(events)))
    /\ heap' = {}
    /\ pc' = "done"
    /\ UNCHANGED paretoVars
    /\ UNCHANGED <<concVars, ingestVars>>
    /\ UNCHANGED <<events, on_prem_gpus, cloud_containers, cloud_model,
                   track_assignments, sorted_events, cloud_event_count,
                   on_prem_event_count, total_cloud_cost, assignments,
                   costVars, sweepVars>>

Next == Raise \/ Start \/ Place \/ Return

Spec == Init /\ [][Next]_vars

----------------------------------------------------------------------------
(* Specification SpecLpt: the same call on the job lists where the LPT
   order matters, among them the classical instances on which LPT is not
   optimal *)

LptHardLists ==
    {<<3, 3, 2, 2, 2>>, <<2, 3, 2, 3, 2>>, <<5, 5, 4, 4, 3, 3, 3>>}

\* processors alike (ratio 1, no overhead) and a fixed-duration elastic pool
LptModels ==
    {CloudCostModel(2, None, FALSE, 4, 0, 0, 1, r, "g4dn.xlarge", None) :
        r \in {None, Some(1)}}

InitLpt ==
    /\ IdlePareto
    /\ IdleConc
    /\ IdleIngest
    /\ pc = "call"
    /\ events \in {MakeEvents(d) : d \in SeqsUpTo(1..MaxDur, MaxJobs) \cup LptHardLists}
    /\ on_prem_gpus \in 0..MaxGpus
    /\ cloud_containers \in {0, 1}
    /\ cloud_model \in LptModels
    /\ track_assignments = FALSE
    /\ sorted_events = <<>>
    /\ heap = {}
    /\ cloud_event_count = 0
    /\ on_prem_event_count = 0
    /\ total_cloud_cost = 0
    /\ assignments = None
    /\ result = None
    /\ IdleCost
    /\ IdleSweep

SpecLpt == InitLpt /\ [][Next]_vars

----------------------------------------------------------------------------
(* Properties of one schedule_lpt call (specifications Spec and SpecLpt) *)

Returned == pc = "done"
Res == Val(result)
Tracked == Val(assignments)
Procs == 0..(on_prem_gpus + cloud_containers - 1)
FixedProcs == 0..(on_prem_gpus - 1)
ElasticProcs == on_prem_gpus..(on_prem_gpus + cloud_containers - 1)

RECURSIVE MaxOver(_, _)
\* the largest value of f over S, 0 when S is empty
MaxOver(f, S) ==
    IF S = {} THEN 0
    ELSE LET x == CHOOSE y \in S : TRUE
         IN Max2(f[x], MaxOver(f, S \ {x}))

\* C1: with no processor at all (fixed 0, elastic 0) the call never gets past
\* the configuration check: it is either not yet started or has raised, and
\* there is never a BatchResult, whatever the job list.
C1_ZeroProcessorsRaise ==
    on_prem_gpus + cloud_containers = 0
        => /\ pc \in {"call", "raised"}
           /\ result = None

C1_Witness ==
    /\ pc = "raised"
    /\ events = <<>>
    /\ on_prem_gpus = 0 /\ cloud_containers = 0

\* Start-up offset and effective duration of a job of local duration t on
\* processor p, as section 4.2 of the design states them.
StartOffset(p) == IF p >= on_prem_gpus THEN cloud_model.container_startup_sec ELSE 0

SpecDuration(p, t) ==
    IF p < on_prem_gpus THEN t
    ELSE (IF cloud_model.ratio # None THEN Val(cloud_model.ratio) * t
          ELSE cloud_model.cloud_time_per_event_sec)
         + cloud_model.data_transfer_sec_per_event

\* makespan of the assignment f : job index -> processor
MakespanOf(f) ==
    LET load == [p \in Procs |->
                    StartOffset(p)
                    + SumSeq([i \in 1..Len(events) |->
                                 IF f[i] = p
                                 THEN SpecDuration(p, events[i].processing_time_sec)
                                 ELSE 0])]
    IN MaxOver(load, Procs)

\* the minimum makespan over every assignment (brute force)
OptMakespan ==
    LET all == {MakespanOf(f) : f \in [1..Len(events) -> Procs]}
    IN CHOOSE m \in all : \A k \in all : m <= k

\* all processors behave alike: one pool is empty, or the elastic pool has
\* ratio 1 and neither start-up nor transfer overhead
IdenticalProcessors ==
    \/ on_prem_gpus = 0
    \/ cloud_containers = 0
    \/ /\ cloud_model.ratio = Some(1)
       /\ cloud_model.container_startup_sec = 0
       /\ cloud_model.data_transfer_sec_per_event = 0

LoadFromAssignments(p) ==
    StartOffset(p)
    + SumSeq([i \in 1..Len(Tracked) |->
                 IF Tracked[i].processor_id = p
                 THEN (IF p < on_prem_gpus
                       THEN Tracked[i].processing_time_sec
                       ELSE Tracked[i].effective_time_sec)
                 ELSE 0])

FinalLoads == [p \in Procs |-> LoadFromAssignments(p)]

\* C3: the returned turnaround is the maximum final load over all
\* processors (idle ones included, elastic ones starting at the start-up
\* overhead), the two finish times are that maximum per pool, and the
\* turnaround is the larger of the two finish times.
C3_MakespanIsMaxLoad ==
    (Returned /\ assignments # None)
        => /\ Res.turnaround_time_sec = MaxOver(FinalLoads, Procs)
           /\ Res.on_prem_finish_sec = MaxOver(FinalLoads, FixedProcs)
           /\ Res.cloud_finish_sec = MaxOver(FinalLoads, ElasticProcs)
           /\ Res.turnaround_time_sec
                = Max2(Res.on_prem_finish_sec, Res.cloud_finish_sec)

C3_Witness ==
    /\ Returned /\ assignments # None
    /\ on_prem_gpus = 1 /\ cloud_containers = 2
    /\ cloud_model.container_startup_sec = 2
    /\ Res.events_on_cloud = 1
    /\ Res.events_on_prem = 2
    /\ Res.cloud_finish_sec > Res.on_prem_finish_sec

RateInForce ==
    IF cloud_model.use_spot /\ cloud_model.spot_cost_per_hour # None
    THEN Val(cloud_model.spot_cost_per_hour)
    ELSE cloud_model.cost_per_hour

\* C6: the run's cloud cost is the sum over exactly the jobs placed on
\* elastic processors of (p / 3600) * rate + transfer cost, p being
\* ratio * local duration or the fixed duration; start-up and transfer
\* seconds are not billed and idle elastic processors cost nothing.
\* (Both sides are numerators over SecPerHour.)
C6_CloudCostIsSumOverCloudJobs ==
    (Returned /\ assignments # None)
        => Res.cloud_cost
             = SumSeq([i \in 1..Len(Tracked) |->
                  IF Tracked[i].assigned_to = "cloud"
                  THEN (IF cloud_model.ratio # None
                        THEN Val(cloud_model.ratio) * Tracked[i].processing_time_sec
                        ELSE cloud_model.cloud_time_per_event_sec) * RateInForce
                       + SecPerHour * cloud_model.data_transfer_cost_per_event
                  ELSE 0])

C6_Witness ==
    /\ Returned /\ assignments # None
    /\ cloud_containers = 2
    /\ Res.events_on_cloud = 1
    /\ Res.events_on_prem >= 1
    /\ cloud_model.container_startup_sec > 0
    /\ cloud_model.data_transfer_sec_per_event > 0
    /\ cloud_model.use_spot /\ cloud_model.spot_cost_per_hour # None
    /\ Res.cloud_cost > 0

----------------------------------------------------------------------------
(* Specification SpecCost: one call of a cost-model function *)

NoModel == CloudCostModel(0, None, FALSE, 0, 0, 0, 0, None, "", None)

IdleSched ==
    /\ events = <<>> /\ on_prem_gpus = 0 /\ cloud_containers = 0
    /\ track_assignments = FALSE /\ sorted_events = <<>> /\ heap = {}
    /\ cloud_event_count = 0 /\ on_prem_event_count = 0
    /\ total_cloud_cost = 0 /\ assignments = None

CostRatios == {None, Some(0), Some(2)}
CostStartups == {0, DefaultContainerStartupSec}
CostTransferSecs == {DefaultDataTransferSecPerEvent, 60}
CostTransferCosts == {0, DefaultDataTransferCostPerEvent}
CostDurations == {1, 500, 3600}

CostModels ==
    {CloudCostModel(1000, sp[1], sp[2], 1000, s, x, k, r, "g4dn.xlarge", None) :
        sp \in {<<None, TRUE>>, <<Some(DefaultSpotCostPerHour), TRUE>>,
                <<Some(DefaultSpotCostPerHour), FALSE>>},
        s \in CostStartups, x \in CostTransferSecs, k \in CostTransferCosts,
        r \in CostRatios}

CostInstances ==
    {InstanceType("test", "Test GPU", 1000, spot, ri1, ri3, ratio) :
        spot \in {0, 500}, ri1 \in {None, Some(0), Some(700)},
        ri3 \in {None, Some(400)}, ratio \in {1, 2}}

InitCost ==
    /\ IdlePareto
    /\ IdleConc
    /\ IdleIngest
    /\ pc \in {"call_time", "call_cost", "call_from_instance"}
    /\ IF pc = "call_from_instance"
       THEN /\ cloud_model = NoModel
            /\ on_prem_time_sec = 0
            /\ instance \in {Some(i) : i \in CostInstances}
            /\ pricing \in {Some(t) : t \in PricingTiers}
       ELSE /\ cloud_model \in CostModels
            /\ on_prem_time_sec \in CostDurations
            /\ instance = None
            /\ pricing = None
    /\ result = None
    /\ IdleSched
    /\ IdleSweep

\* schemas.py:102-112
EventCloudTimeFor ==
    /\ pc = "call_time"
    /\ result' = Some(event_cloud_time_for(cloud_model, on_prem_time_sec))
    /\ pc' = "time_done"
    /\ UNCHANGED paretoVars
    /\ UNCHANGED <<concVars, ingestVars>>
    /\ UNCHANGED <<schedVars, costVars, sweepVars>>

\* schemas.py:114-125
EventCloudCostFor ==
    /\ pc = "call_cost"
    /\ result' = Some(event_cloud_cost_for(cloud_model, on_prem_time_sec))
    /\ pc' = "cost_done"
    /\ UNCHANGED paretoVars
    /\ UNCHANGED <<concVars, ingestVars>>
    /\ UNCHANGED <<schedVars, costVars, sweepVars>>

\* schemas.py:141-159, the tier is offered
FromInstance ==
    /\ pc = "call_from_instance"
    /\ from_instance(Val(instance), Val(pricing)) # None
    /\ result' = from_instance(Val(instance), Val(pricing))
    /\ pc' = "from_instance_done"
    /\ UNCHANGED paretoVars
    /\ UNCHANGED <<concVars, ingestVars>>
    /\ UNCHANGED <<schedVars, costVars, sweepVars>>

\* schemas.py:148-151, the tier is not offered
FromInstanceRaise ==
    /\ pc = "call_from_instance"
    /\ from_instance(Val(instance), Val(pricing)) = None
    /\ pc' = "from_instance_raised"
    /\ UNCHANGED paretoVars
    /\ UNCHANGED <<concVars, ingestVars>>
    /\ UNCHANGED <<schedVars, result, costVars, sweepVars>>

NextCost == EventCloudTimeFor \/ EventCloudCostFor \/ FromInstance \/ FromInstanceRaise

SpecCost == InitCost /\ [][NextCost]_vars

Offered(inst, tier) ==
    \/ tier \in {"ondemand", "spot"}
    \/ tier = "1yr_ri" /\ inst.rate_1yr_ri # None
    \/ tier = "3yr_ri" /\ inst.rate_3yr_ri # None

\* C7: from_instance returns a model exactly when the tier is in
\* available_pricing(); the model then carries the instance's rate for that
\* tier as its effective hourly rate and the instance's ratio; for a tier
\* that is not offered it raises and no model exists.
C7_FromInstanceIffAvailable ==
    /\ pc = "from_instance_done"
         => /\ InSeq(Val(pricing), available_pricing(Val(instance)))
            /\ Offered(Val(instance), Val(pricing))
            /\ result # None
            /\ effective_cost_per_hour(Val(result))
                 = Val(rate_for_pricing(Val(instance), Val(pricing)))
            /\ Val(result).ratio = Some(Val(instance).ratio)
            /\ Val(result).pricing_tier = pricing
    /\ pc = "from_instance_raised"
         => /\ ~InSeq(Val(pricing), available_pricing(Val(instance)))
            /\ ~Offered(Val(instance), Val(pricing))
            /\ result = None

C7_Witness ==
    /\ pc = "from_instance_done"
    /\ pricing = Some("1yr_ri")
    /\ Val(instance).rate_1yr_ri = Some(0)
    /\ Val(instance).rate_3yr_ri = None
    /\ effective_cost_per_hour(Val(result)) = 0

C7_WitnessRaise ==
    /\ pc = "from_instance_raised"
    /\ pricing = Some("3yr_ri")
    /\ Val(instance).rate_1yr_ri # None

----------------------------------------------------------------------------
(* Specification SpecSweep: one generate_cloud_sweep call, one swept size
   at a time *)

SweepModels ==
    {CloudCostModel(2, None, FALSE, 4, s, 0, k, r, "g4dn.xlarge", None) :
        s \in Startups, k \in {0, 1}, r \in {None, Some(0), Some(2)}}

SweepMax == {0, 1, 3}
SweepSteps == {1, 2}

InitSweep ==
    /\ IdlePareto
    /\ IdleConc
    /\ IdleIngest
    /\ pc = "sweep"
    /\ events \in {MakeEvents(d) : d \in SeqsUpTo(1..MaxDur, MaxJobs)}
    /\ on_prem_gpus \in 0..MaxGpus
    /\ cloud_model \in SweepModels
    /\ max_cloud_containers \in SweepMax
    /\ step \in SweepSteps
    /\ c = 0
    /\ points = <<>>
    /\ result = None
    /\ cloud_containers = 0
    /\ track_assignments = FALSE /\ sorted_events = <<>> /\ heap = {}
    /\ cloud_event_count = 0 /\ on_prem_event_count = 0
    /\ total_cloud_cost = 0 /\ assignments = None
    /\ IdleCost
    /\ instance_types = <<>> /\ pricing_modes = <<>>
    /\ inst_i = 0 /\ pricing_j = 0

\* pareto.py:200-202: one swept size
SweepPoint ==
    /\ pc = "sweep"
    /\ ~RangeDone(c, max_cloud_containers)
    /\ LET r == schedule_lpt(events, on_prem_gpus, c, cloud_model, FALSE)
       IN /\ r # None
          /\ points' = Append(points, SweepTuple(Val(r), c))
    /\ c' = c + step
    /\ UNCHANGED paretoVars
    /\ UNCHANGED <<concVars, ingestVars>>
    /\ UNCHANGED <<pc, schedVars, result, costVars, instance_types, pricing_modes,
                   max_cloud_containers, step, inst_i, pricing_j>>

\* faulty variant: a size the scheduler rejects is skipped
SweepRaise_SkipsPoint ==
    /\ pc = "sweep"
    /\ ~RangeDone(c, max_cloud_containers)
    /\ schedule_lpt(events, on_prem_gpus, c, cloud_model, FALSE) = None
    /\ c' = c + step
    /\ UNCHANGED paretoVars
    /\ UNCHANGED <<concVars, ingestVars>>
    /\ UNCHANGED <<pc, schedVars, result, costVars, instance_types, pricing_modes,
                   max_cloud_containers, step, inst_i, pricing_j, points>>

\* pareto.py:201: the scheduler's ValueError leaves the sweep
SweepRaise ==
    /\ pc = "sweep"
    /\ ~RangeDone(c, max_cloud_containers)
    /\ schedule_lpt(events, on_prem_gpus, c, cloud_model, FALSE) = None
    /\ pc' = "sweep_raised"
    /\ UNCHANGED paretoVars
    /\ UNCHANGED <<concVars, ingestVars>>
    /\ UNCHANGED <<schedVars, result, costVars, sweepVars>>

\* pareto.py:204
SweepReturn ==
    /\ pc = "sweep"
    /\ RangeDone(c, max_cloud_containers)
    /\ result' = Some(points)
    /\ pc' = "sweep_done"
    /\ UNCHANGED paretoVars
    /\ UNCHANGED <<concVars, ingestVars>>
    /\ UNCHANGED <<schedVars, costVars, sweepVars>>

NextSweep == SweepPoint \/ SweepRaise \/ SweepReturn

SpecSweep == InitSweep /\ [][NextSweep]_vars

SweepEnded == pc \in {"sweep_done", "sweep_raised"}

\* what the claim promises of a finished step-1 sweep
BaselineSweep ==
    /\ pc = "sweep_done"
    /\ Len(Val(result)) = max_cloud_containers + 1
    /\ Val(result)[1][4] = 0
    /\ Val(result)[1][2] = 0

\* C8 as claimed: a step-1 sweep over 0..N yields N+1 points with the
\* zero-cost size-0 point first, for every site (fixed pool size >= 0).
C8_SweepAlwaysYields ==
    (step = 1 /\ SweepEnded) => BaselineSweep

\* C8 amended: with a fixed pool of at least one processor the step-1 sweep
\* never raises, holds one point per size swept so far, and returns N+1
\* points whose first is the size-0 point of cost 0; with a fixed pool of
\* size 0 it raises at size 0 and returns no list.
C8_SweepYieldsWithFixedPool ==
    step = 1
        => /\ on_prem_gpus >= 1
                => /\ pc # "sweep_raised"
                   /\ pc = "sweep" => Len(points) = c
                   /\ SweepEnded => BaselineSweep
           /\ (on_prem_gpus = 0 /\ SweepEnded)
                => /\ pc = "sweep_raised"
                   /\ result = None
                   /\ points = <<>>

C8_Witness ==
    /\ pc = "sweep_done"
    /\ step = 1
    /\ max_cloud_containers = 3
    /\ on_prem_gpus = 1
    /\ Len(events) = 3
    /\ Len(Val(result)) = 4
    /\ Val(result)[1][2] = 0
    /\ Val(result)[4][2] > 0

----------------------------------------------------------------------------
(* Specification SpecMulti: one generate_multi_instance_sweep call, one
   loop iteration at a time *)

MaxInstances == 2

\* catalog entries: every tier, no reserved tier (like p3.2xlarge), and a
\* one-year reserved tier only
MultiInstances ==
    {InstanceType("with_ri", "A", 1000, 500, Some(700), Some(400), 2),
     InstanceType("no_ri", "B", 3000, 300, None, None, 1),
     InstanceType("ri1_only", "C", 2000, 500, Some(0), None, 1)}

\* lists without repetition, as the callers build them
DistinctSeqs(S, n) ==
    {q \in SeqsUpTo(S, n) : \A i, j \in 1..Len(q) : i # j => q[i] # q[j]}

\* loaders.py PRICING_MODES
PRICING_MODES == <<"ondemand", "spot", "1yr_ri", "3yr_ri">>

MultiPricingLists == DistinctSeqs(PricingTiers, 2) \cup {PRICING_MODES}
MultiEventLists == {MakeEvents(<<>>), MakeEvents(<<1, 2>>)}
MultiMax == {0, 2}
MultiSteps == {1, 2}

InitMulti ==
    /\ IdlePareto
    /\ IdleConc
    /\ IdleIngest
    /\ pc = "multi_pricing"
    /\ events \in MultiEventLists
    /\ on_prem_gpus \in 0..MaxGpus
    /\ instance_types \in DistinctSeqs(MultiInstances, MaxInstances)
    /\ pricing_modes \in MultiPricingLists
    /\ max_cloud_containers \in MultiMax
    /\ step \in MultiSteps
    /\ inst_i = 1
    /\ pricing_j = 1
    /\ c = 0
    /\ points = <<>>
    /\ result = None
    /\ cloud_model = NoModel
    /\ cloud_containers = 0
    /\ track_assignments = FALSE /\ sorted_events = <<>> /\ heap = {}
    /\ cloud_event_count = 0 /\ on_prem_event_count = 0
    /\ total_cloud_cost = 0 /\ assignments = None
    /\ IdleCost

CurInstance == instance_types[inst_i]
CurPricing == pricing_modes[pricing_j]
InPricingLoop ==
    /\ pc = "multi_pricing"
    /\ inst_i <= Len(instance_types)
    /\ pricing_j <= Len(pricing_modes)

\* pareto.py:228-229: the tier is not offered by this instance
MultiSkipTier ==
    /\ InPricingLoop
    /\ ~InSeq(CurPricing, available_pricing(CurInstance))
    /\ pricing_j' = pricing_j + 1
    /\ UNCHANGED paretoVars
    /\ UNCHANGED <<concVars, ingestVars>>
    /\ UNCHANGED <<pc, schedVars, result, costVars, instance_types, pricing_modes,
                   max_cloud_containers, step, c, inst_i, points>>

\* pareto.py:230: build the cost model and enter the size loop
MultiEnterTier ==
    /\ InPricingLoop
    /\ InSeq(CurPricing, available_pricing(CurInstance))
    /\ LET m == from_instance(CurInstance, CurPricing)
       IN IF m = None
          THEN /\ pc' = "multi_raised"
               /\ UNCHANGED <<cloud_model, c>>
          ELSE /\ cloud_model' = Val(m)
               /\ c' = 0
               /\ pc' = "multi_c"
    /\ UNCHANGED paretoVars
    /\ UNCHANGED <<concVars, ingestVars>>
    /\ UNCHANGED <<events, on_prem_gpus, cloud_containers, track_assignments,
                   sorted_events, heap, cloud_event_count, on_prem_event_count,
                   total_cloud_cost, assignments, result, costVars,
                   instance_types, pricing_modes, max_cloud_containers, step,
                   inst_i, pricing_j, points>>

\* pareto.py:231-241: one swept size
MultiPoint ==
    /\ pc = "multi_c"
    /\ ~RangeDone(c, max_cloud_containers)
    /\ LET r == schedule_lpt(events, on_prem_gpus, c, cloud_model, FALSE)
       IN /\ r # None
          /\ points' = Append(points, MultiTuple(Val(r), CurInstance, CurPricing, c))
    /\ c' = c + step
    /\ UNCHANGED paretoVars
    /\ UNCHANGED <<concVars, ingestVars>>
    /\ UNCHANGED <<pc, schedVars, result, costVars, instance_types, pricing_modes,
                   max_cloud_containers, step, inst_i, pricing_j>>

\* pareto.py:232: the scheduler's ValueError leaves the sweep
MultiRaise ==
    /\ pc = "multi_c"
    /\ ~RangeDone(c, max_cloud_containers)
    /\ schedule_lpt(events, on_prem_gpus, c, cloud_model, FALSE) = None
    /\ pc' = "multi_raised"
    /\ UNCHANGED paretoVars
    /\ UNCHANGED <<concVars, ingestVars>>
    /\ UNCHANGED <<schedVars, result, costVars, sweepVars>>

\* pareto.py:231: the size loop ends, next tier
MultiTierDone ==
    /\ pc = "multi_c"
    /\ RangeDone(c, max_cloud_containers)
    /\ pricing_j' = pricing_j + 1
    /\ pc' = "multi_pricing"
    /\ UNCHANGED paretoVars
    /\ UNCHANGED <<concVars, ingestVars>>
    /\ UNCHANGED <<schedVars, result, costVars, instance_types, pricing_modes,
                   max_cloud_containers, step, c, inst_i, points>>

\* pareto.py:225-227: the tier loop ends, next instance
MultiNextInstance ==
    /\ pc = "multi_pricing"
    /\ inst_i <= Len(instance_types)
    /\ pricing_j > Len(pricing_modes)
    /\ inst_i' = inst_i + 1
    /\ pricing_j' = 1
    /\ UNCHANGED paretoVars
    /\ UNCHANGED <<concVars, ingestVars>>
    /\ UNCHANGED <<pc, schedVars, result, costVars, instance_types, pricing_modes,
                   max_cloud_containers, step, c, points>>

\* pareto.py:243
MultiReturn ==
    /\ pc = "multi_pricing"
    /\ inst_i > Len(instance_types)
    /\ result' = Some(points)
    /\ pc' = "multi_done"
    /\ UNCHANGED paretoVars
    /\ UNCHANGED <<concVars, ingestVars>>
    /\ UNCHANGED <<schedVars, costVars, sweepVars>>

NextMulti ==
    \/ MultiSkipTier \/ MultiEnterTier \/ MultiPoint \/ MultiRaise
    \/ MultiTierDone \/ MultiNextInstance \/ MultiReturn

SpecMulti == InitMulti /\ [][NextMulti]_vars

\* the swept sizes 0, step, 2 step, ... up to max
SweptSizes == {k \in 0..max_cloud_containers : k % step = 0}

\* the requested tiers an instance offers
OfferedRequested(inst) ==
    {j \in 1..Len(pricing_modes) : Offered(inst, pricing_modes[j])}

\* positions of the returned list that carry (name, tier, size)
TuplesOf(name, tier, size) ==
    {k \in 1..Len(Val(result)) :
        /\ Val(result)[k][4] = name
        /\ Val(result)[k][5] = tier
        /\ Val(result)[k][6] = size}

\* C9: the returned list holds exactly one tuple per (instance, requested
\* and offered tier, swept size) and nothing else, so its length is the sum
\* over instances of offered requested tiers times the number of sizes; each
\* tuple carries its instance name and tier and the cost and time of a run
\* at that instance's rate for that tier; a tier that is not offered is
\* skipped and never makes the sweep raise (the sweep raises only for a
\* configuration without any processor).
C9_MultiSweepExactCombinations ==
    /\ pc = "multi_done"
         => /\ Len(Val(result))
                 = SumSeq([i \in 1..Len(instance_types) |->
                      Cardinality(OfferedRequested(instance_types[i]))
                        * Cardinality(SweptSizes)])
            /\ \A i \in 1..Len(instance_types) :
               \A j \in OfferedRequested(instance_types[i]) :
               \A size \in SweptSizes :
                  Cardinality(TuplesOf(instance_types[i].name,
                                       pricing_modes[j], size)) = 1
            /\ \A k \in 1..Len(Val(result)) :
               \E i \in 1..Len(instance_types) :
               \E j \in OfferedRequested(instance_types[i]) :
                  LET inst == instance_types[i]
                      tier == pricing_modes[j]
                      size == Val(result)[k][6]
                      m == [NoModel EXCEPT
                              !.cost_per_hour = Val(rate_for_pricing(inst, tier)),
                              !.ratio = Some(inst.ratio),
                              !.container_startup_sec = DefaultContainerStartupSec,
                              !.data_transfer_cost_per_event =
                                  DefaultDataTransferCostPerEvent]
                      run == Val(schedule_lpt(events, on_prem_gpus, size, m, FALSE))
                  IN /\ Val(result)[k][4] = inst.name
                     /\ Val(result)[k][5] = tier
                     /\ size \in SweptSizes
                     /\ Val(result)[k][2] = run.cloud_cost
                     /\ Val(result)[k][3] = run.turnaround_time_sec
    /\ pc = "multi_raised"
         => /\ on_prem_gpus = 0
            /\ c = 0
            /\ Offered(CurInstance, CurPricing)

C9_Witness ==
    /\ pc = "multi_done"
    /\ on_prem_gpus = 1
    /\ pricing_modes = PRICING_MODES
    /\ Len(instance_types) = 2
    /\ instance_types[1].name = "no_ri"
    /\ instance_types[2].name = "with_ri"
    /\ max_cloud_containers = 2 /\ step = 1
    /\ events # <<>>
    /\ Len(Val(result)) = 18

----------------------------------------------------------------------------
(* Specification SpecDom: one pair of is_dominated calls *)

MaxCost == 3
MaxTime == 3

InitDom ==
    /\ IdlePareto
    /\ IdleConc
    /\ IdleIngest
    /\ pc = "call_dominated"
    /\ points \in [1..2 -> {<<<<"P", k, t>>, k, t>> : k \in 0..MaxCost, t \in 0..MaxTime}]
    /\ result = None
    /\ cloud_model = NoModel
    /\ IdleSched
    /\ IdleCost
    /\ instance_types = <<>> /\ pricing_modes = <<>>
    /\ max_cloud_containers = 0 /\ step = 1 /\ c = 0
    /\ inst_i = 0 /\ pricing_j = 0

\* is_dominated(A, B) and is_dominated(B, A)
IsDominatedBothWays ==
    /\ pc = "call_dominated"
    /\ result' = Some(<<is_dominated(CostTime(points[1]), CostTime(points[2])),
                        is_dominated(CostTime(points[2]), CostTime(points[1]))>>)
    /\ pc' = "dominated_done"
    /\ UNCHANGED paretoVars
    /\ UNCHANGED <<concVars, ingestVars>>
    /\ UNCHANGED <<schedVars, costVars, sweepVars>>

NextDom == IsDominatedBothWays

SpecDom == InitDom /\ [][NextDom]_vars

\* C10: is_dominated is asymmetric and irreflexive: A dominated by B and B
\* dominated by A never both hold, and points of equal cost and time do not
\* dominate one another.
C10_DominanceAsymmetric ==
    pc = "dominated_done"
        => /\ ~(Val(result)[1] /\ Val(result)[2])
           /\ (points[1][2] = points[2][2] /\ points[1][3] = points[2][3])
                => (~Val(result)[1] /\ ~Val(result)[2])

C10_Witness ==
    /\ pc = "dominated_done"
    /\ points[1][2] = 2 /\ points[1][3] = 1
    /\ points[2][2] = 2 /\ points[2][3] = 3
    /\ Val(result) = <<FALSE, TRUE>>

C10_WitnessIdentical ==
    /\ pc = "dominated_done"
    /\ points[1] = points[2]
    /\ Val(result) = <<FALSE, FALSE>>

----------------------------------------------------------------------------
(* Specification SpecPareto: one dominance pass over one list of points,   *)
(* by the pairwise loop, the array pass or the multi-instance pass         *)

MaxPoints == 3
ParetoCosts == {0, 1, 2}
ParetoTimes == {0, 1, 2}

\* the tuple generate_multi_instance_sweep builds (pareto.py:233-241), with
\* or without the trailing cloud_containers the pass accepts (pareto.py:278)
InputTuple(i, k, t, withSize) ==
    LET inst == IF i % 2 = 1 THEN "g4dn.xlarge" ELSE "p3.2xlarge"
        tier == IF i % 2 = 1 THEN "ondemand" ELSE "spot"
    IN IF withSize
       THEN <<<<"P", i>>, k, t, inst, tier, i>>
       ELSE <<<<"P", i>>, k, t, inst, tier>>

ParetoInputs ==
    {[i \in 1..Len(ct) |-> InputTuple(i, ct[i][1], ct[i][2], ws)] :
        ct \in SeqsUpTo(ParetoCosts \X ParetoTimes, MaxPoints),
        ws \in BOOLEAN}

\* the same points as compute_pareto_frontier takes them (pareto.py:32-34)
PairwiseArgs(pts) ==
    [i \in 1..Len(pts) |->
        IF Len(pts[i]) > 5
        THEN <<pts[i][1], pts[i][2], pts[i][3], pts[i][6]>>
        ELSE <<pts[i][1], pts[i][2], pts[i][3]>>]

\* the same points as compute_pareto_frontier_numpy takes them (pareto.py:76-78)
CostsOf(pts) == [i \in 1..Len(pts) |-> pts[i][2]]
TimesOf(pts) == [i \in 1..Len(pts) |-> pts[i][3]]
ConfigIdsOf(pts) == [i \in 1..Len(pts) |-> pts[i][1]]

InitPareto ==
    /\ IdlePareto
    /\ IdleConc
    /\ IdleIngest
    /\ pc = "call_pareto"
    /\ points \in ParetoInputs
    /\ result = None
    /\ cloud_model = NoModel
    /\ IdleSched
    /\ IdleCost
    /\ instance_types = <<>> /\ pricing_modes = <<>>
    /\ max_cloud_containers = 0 /\ step = 1 /\ c = 0
    /\ inst_i = 0 /\ pricing_j = 0

ComputeParetoFrontier ==
    /\ pc = "call_pareto"
    /\ result' = Some(compute_pareto_frontier(PairwiseArgs(points)))
    /\ pc' = "pareto_done"
    /\ UNCHANGED <<schedVars, costVars, sweepVars, paretoVars>>
    /\ UNCHANGED <<concVars, ingestVars>>

ComputeParetoFrontierNumpy ==
    /\ pc = "call_pareto"
    /\ result' = Some(compute_pareto_frontier_numpy(
                          CostsOf(points), TimesOf(points), ConfigIdsOf(points)))
    /\ pc' = "pareto_numpy_done"
    /\ UNCHANGED <<schedVars, costVars, sweepVars, paretoVars>>
    /\ UNCHANGED <<concVars, ingestVars>>

ComputeParetoFrontierMulti ==
    /\ pc = "call_pareto"
    /\ result' = Some(compute_pareto_frontier_multi(points))
    /\ pc' = "pareto_multi_done"
    /\ UNCHANGED <<schedVars, costVars, sweepVars, paretoVars>>
    /\ UNCHANGED <<concVars, ingestVars>>

NextPareto ==
    \/ ComputeParetoFrontier
    \/ ComputeParetoFrontierNumpy
    \/ ComputeParetoFrontierMulti

SpecPareto == InitPareto /\ [][NextPareto]_vars

PassEnded == pc \in {"pareto_done", "pareto_numpy_done", "pareto_multi_done"}

\* the flags of a returned list, index by index
FlagsOf(out) == [i \in 1..Len(out) |-> out[i].is_pareto_optimal]

\* another point of the input, at a different index, is at least as good
\* as point i on both axes and better on one
SomeOtherIsBetter(i) ==
    \E j \in 1..Len(points) :
        /\ j # i
        /\ points[j][2] <= points[i][2]
        /\ points[j][3] <= points[i][3]
        /\ (points[j][2] < points[i][2] \/ points[j][3] < points[i][3])

\* C11: compute_pareto_frontier returns one entry per input point and flags
\* point i optimal exactly when no point at another index has cost <= and
\* time <= it with one of the two strict; so the empty list gives the empty
\* list, a single point is flagged, and equal copies of a non-dominated
\* point are all flagged.
C11_FlagIffNotDominated ==
    pc = "pareto_done" =>
        /\ Len(Val(result)) = Len(points)
        /\ \A i \in 1..Len(points) :
               Val(result)[i].is_pareto_optimal <=> ~SomeOtherIsBetter(i)
        /\ (points = <<>> => Val(result) = <<>>)
        /\ (Len(points) = 1 => Val(result)[1].is_pareto_optimal)
        /\ \A i, j \in 1..Len(points) :
               (CostTime(points[i]) = CostTime(points[j])
                /\ Val(result)[i].is_pareto_optimal)
                   => Val(result)[j].is_pareto_optimal

\* two equal copies of a non-dominated point, both flagged, and a third,
\* dominated point that is not
C11_Witness ==
    /\ pc = "pareto_done"
    /\ Len(points) = 3
    /\ CostTime(points[1]) = CostTime(points[3])
    /\ Val(result)[1].is_pareto_optimal
    /\ Val(result)[3].is_pareto_optimal
    /\ ~Val(result)[2].is_pareto_optimal

\* C12: on one list of points the pairwise pass, the array pass and the
\* multi-instance pass give the same flag at every index.
C12_ThreePassesAgree ==
    PassEnded =>
        /\ FlagsOf(Val(result))
               = FlagsOf(compute_pareto_frontier(PairwiseArgs(points)))
        /\ FlagsOf(Val(result))
               = FlagsOf(compute_pareto_frontier_numpy(
                             CostsOf(points), TimesOf(points), ConfigIdsOf(points)))
        /\ FlagsOf(Val(result)) = FlagsOf(compute_pareto_frontier_multi(points))

\* the array pass has run on a list with two equal points and a point that
\* ties with them on cost and loses on time
C12_Witness ==
    /\ pc = "pareto_numpy_done"
    /\ Len(points) = 3
    /\ CostTime(points[1]) = CostTime(points[2])
    /\ points[3][2] = points[1][2]
    /\ points[3][3] > points[1][3]
    /\ FlagsOf(Val(result)) = <<TRUE, TRUE, FALSE>>

\* C13: compute_pareto_frontier_multi returns one ParetoPoint per input
\* tuple, in input order, carrying the tuple's config_id, cost, time,
\* instance type, pricing tier and elastic-pool size (0 when the tuple has
\* none); only is_pareto_optimal is computed.
C13_MultiKeepsProvenance ==
    pc = "pareto_multi_done" =>
        /\ Len(Val(result)) = Len(points)
        /\ \A i \in 1..Len(points) :
               /\ Val(result)[i].config_id = points[i][1]
               /\ Val(result)[i].cost = points[i][2]
               /\ Val(result)[i].time = points[i][3]
               /\ Val(result)[i].instance_type = Some(points[i][4])
               /\ Val(result)[i].pricing_tier = Some(points[i][5])
               /\ Val(result)[i].cloud_containers
                      = IF Len(points[i]) > 5 THEN points[i][6] ELSE 0
               /\ DOMAIN Val(result)[i]
                      = {"config_id", "cost", "time", "cloud_containers",
                         "is_pareto_optimal", "instance_type", "pricing_tier"}

\* three tuples with their elastic-pool sizes, of two instance types, one of
\* them dominated
C13_Witness ==
    /\ pc = "pareto_multi_done"
    /\ Len(points) = 3
    /\ Len(points[1]) = 6
    /\ Val(result)[2].cloud_containers = 2
    /\ Val(result)[2].instance_type # Val(result)[1].instance_type
    /\ ~Val(result)[2].is_pareto_optimal
    /\ Val(result)[1].is_pareto_optimal

----------------------------------------------------------------------------
(* Specification SpecOptimal: one find_optimal_configuration call on a     *)
(* list of ParetoPoint carrying any flags                                  *)

OptCosts == {0, 1, 3}
OptTimes == {0, 1, 3}
OptWeights == {0, 5, WeightDen}

OptLists ==
    {[i \in 1..Len(q) |->
         ParetoPoint(<<"P", i>>, q[i][1], q[i][2], 0, q[i][3], None, None)] :
        q \in SeqsUpTo(OptCosts \X OptTimes \X BOOLEAN, MaxPoints)}

InitOptimal ==
    /\ IdleConc
    /\ IdleIngest
    /\ pc = "call_find"
    /\ pareto_points \in OptLists
    /\ cost_weight \in OptWeights
    /\ result = None
    /\ cloud_model = NoModel
    /\ IdleSched
    /\ IdleCost
    /\ IdleSweep

FindOptimalConfiguration ==
    /\ pc = "call_find"
    /\ result' = find_optimal_configuration(pareto_points, cost_weight)
    /\ pc' = "find_done"
    /\ UNCHANGED <<schedVars, costVars, sweepVars, paretoVars>>
    /\ UNCHANGED <<concVars, ingestVars>>

NextOptimal == FindOptimalConfiguration

SpecOptimal == InitOptimal /\ [][NextOptimal]_vars

\* the flagged points of the argument
Flagged == {pareto_points[i] : i \in {j \in 1..Len(pareto_points) :
                                         pareto_points[j].is_pareto_optimal}}

FlaggedMinCost == CHOOSE x \in {p.cost : p \in Flagged} : \A p \in Flagged : x <= p.cost
FlaggedMaxCost == CHOOSE x \in {p.cost : p \in Flagged} : \A p \in Flagged : x >= p.cost
FlaggedMinTime == CHOOSE x \in {p.time : p \in Flagged} : \A p \in Flagged : x <= p.time
FlaggedMaxTime == CHOOSE x \in {p.time : p \in Flagged} : \A p \in Flagged : x >= p.time

\* cost_weight * cost_norm + (1 - cost_weight) * time_norm with min-max
\* norms over the flagged points, an axis of zero width contributing 0,
\* times the common denominator (WeightDen and the two non-zero widths)
MinMaxScore(p) ==
    LET cr == FlaggedMaxCost - FlaggedMinCost
        tr == FlaggedMaxTime - FlaggedMinTime
        crd == IF cr = 0 THEN 1 ELSE cr
        trd == IF tr = 0 THEN 1 ELSE tr
    IN cost_weight * (p.cost - FlaggedMinCost) * trd
       + (WeightDen - cost_weight) * (p.time - FlaggedMinTime) * crd

\* the argument without its unflagged points
FlaggedOnly ==
    SelectSeq(pareto_points, LAMBDA p : p.is_pareto_optimal)

\* C14: when some point is flagged, find_optimal_configuration returns a
\* flagged point whose weighted min-max score, with both ranges taken over
\* the flagged points, is the least among the flagged points; removing the
\* unflagged points from the list does not change what is returned.
C14_LeastScoreAmongFlagged ==
    (pc = "find_done" /\ Flagged # {}) =>
        /\ result # None
        /\ Val(result) \in Flagged
        /\ \A p \in Flagged : MinMaxScore(Val(result)) <= MinMaxScore(p)
        /\ result = find_optimal_configuration(FlaggedOnly, cost_weight)

\* an unflagged point is cheaper and faster than every flagged one and
\* stretches both ranges; the flagged point returned is not the first
C14_Witness ==
    /\ pc = "find_done"
    /\ cost_weight = 5
    /\ Len(pareto_points) = 3
    /\ ~pareto_points[1].is_pareto_optimal
    /\ Cardinality(Flagged) = 2
    /\ pareto_points[1].cost < FlaggedMinCost
    /\ pareto_points[1].time < FlaggedMinTime
    /\ result = Some(pareto_points[3])
    /\ MinMaxScore(pareto_points[3]) < MinMaxScore(pareto_points[2])

\* C15: with cost_weight = 1.0 the point returned has the least cost of the
\* flagged points, with cost_weight = 0.0 the least time.
C15_ExtremeWeights ==
    (pc = "find_done" /\ Flagged # {}) =>
        /\ cost_weight = WeightDen =>
               (Val(result) \in Flagged /\ Val(result).cost = FlaggedMinCost)
        /\ cost_weight = 0 =>
               (Val(result) \in Flagged /\ Val(result).time = FlaggedMinTime)

\* cost only: the cheapest flagged point is the last of three and the
\* slowest of them
C15_Witness ==
    /\ pc = "find_done"
    /\ cost_weight = WeightDen
    /\ Len(pareto_points) = 3
    /\ Cardinality(Flagged) = 3
    /\ result = Some(pareto_points[3])
    /\ pareto_points[3].cost < pareto_points[1].cost
    /\ pareto_points[3].cost < pareto_points[2].cost
    /\ pareto_points[3].time = FlaggedMaxTime
    /\ pareto_points[3].time > FlaggedMinTime

\* C16: find_optimal_configuration returns None for the empty list and the
\* first point of a non-empty list in which no point is flagged; the call
\* always returns.
C16_FallbackWithoutFlagged ==
    /\ pc \in {"call_find", "find_done"}
    /\ (pc = "find_done" /\ pareto_points = <<>>) => result = None
    /\ (pc = "find_done" /\ pareto_points # <<>> /\ Flagged = {})
           => result = Some(pareto_points[1])

\* three unflagged points, the first neither the cheapest nor the fastest
C16_Witness ==
    /\ pc = "find_done"
    /\ Len(pareto_points) = 3
    /\ Flagged = {}
    /\ pareto_points[2].cost < pareto_points[1].cost
    /\ pareto_points[3].time < pareto_points[1].time
    /\ result = Some(pareto_points[1])

\* the empty list: None is returned
C16_WitnessEmpty ==
    /\ pc = "find_done"
    /\ pareto_points = <<>>
    /\ result = None

----------------------------------------------------------------------------
(* Further properties of Spec: degenerate but valid inputs of schedule_lpt *)

\* C17: with cloud_containers = 0 and at least one fixed processor,
\* schedule_lpt passes the configuration check and never raises; it returns
\* cloud_cost = 0, events_on_cloud = 0, cloud_finish_sec = 0 and
\* turnaround_time_sec = on_prem_finish_sec, for every job list.
C17_NoElasticPool ==
    (on_prem_gpus >= 1 /\ cloud_containers = 0) =>
        /\ pc # "raised"
        /\ ~NoProcessor(on_prem_gpus, cloud_containers)
        /\ Returned =>
               /\ Res.cloud_cost = 0
               /\ Res.events_on_cloud = 0
               /\ Res.cloud_finish_sec = 0
               /\ Res.turnaround_time_sec = Res.on_prem_finish_sec
               /\ Res.events_on_prem = Len(events)

\* three jobs on two fixed processors and no elastic one
C17_Witness ==
    /\ Returned
    /\ on_prem_gpus = 2 /\ cloud_containers = 0
    /\ Len(events) = 3
    /\ Res.turnaround_time_sec > 0
    /\ Res.cloud_finish_sec = 0
    /\ Res.cloud_cost = 0

\* C18 as stated: for the empty job list and at least one processor,
\* schedule_lpt returns total_events = 0, zero elastic cost and
\* turnaround_time_sec = on_prem_finish_sec, elastic processors and start-up
\* overhead included.
C18_EmptyListTurnaroundIsFixedPool ==
    (events = <<>> /\ on_prem_gpus + cloud_containers >= 1) =>
        /\ pc # "raised"
        /\ Returned =>
               /\ Res.total_events = 0
               /\ Res.cloud_cost = 0
               /\ Res.turnaround_time_sec = Res.on_prem_finish_sec

\* C18: for the empty job list and at least one processor, schedule_lpt
\* passes the configuration check, never raises and returns
\* total_events = 0, zero elastic cost, on_prem_finish_sec = 0 and
\* turnaround_time_sec = cloud_finish_sec, which is the start-up overhead
\* when there is an elastic processor and 0 when there is none.
C18_EmptyListTurnaroundIsStartup ==
    (events = <<>> /\ on_prem_gpus + cloud_containers >= 1) =>
        /\ pc # "raised"
        /\ ~NoProcessor(on_prem_gpus, cloud_containers)
        /\ Returned =>
               /\ Res.total_events = 0
               /\ Res.events_on_prem = 0
               /\ Res.events_on_cloud = 0
               /\ Res.cloud_cost = 0
               /\ Res.on_prem_finish_sec = 0
               /\ Res.cloud_finish_sec
                      = IF cloud_containers >= 1
                        THEN cloud_model.container_startup_sec ELSE 0
               /\ Res.turnaround_time_sec = Res.cloud_finish_sec

\* the empty list on one fixed and one elastic processor with start-up 2:
\* the turnaround is the start-up overhead, the fixed pool finishes at 0
C18_Witness ==
    /\ Returned
    /\ events = <<>>
    /\ on_prem_gpus = 1 /\ cloud_containers = 1
    /\ cloud_model.container_startup_sec = 2
    /\ Res.turnaround_time_sec = 2
    /\ Res.on_prem_finish_sec = 0

----------------------------------------------------------------------------
(* Further properties of SpecSweep: the two ends of a sweep *)

\* the returned list, its first point and its point of size
\* max_cloud_containers (tuples are (config_id, cost, time, size))
Swept == Val(result)
BaselinePoint == Swept[1]
HasMaxPoint == \E i \in 1..Len(Swept) : Swept[i][4] = max_cloud_containers
MaxPoint == Swept[CHOOSE i \in 1..Len(Swept) : Swept[i][4] = max_cloud_containers]

----------------------------------------------------------------------------
(* Specification SpecSweeps: one call of either sweep generator *)

InitSweeps == InitSweep \/ InitMulti

NextSweeps == NextSweep \/ NextMulti

SpecSweeps == InitSweeps /\ [][NextSweeps]_vars

\* some size of the single-model sweep is rejected by the scheduler
SweepHasFailingPoint ==
    \E size \in SweptSizes :
        schedule_lpt(events, on_prem_gpus, size, cloud_model, FALSE) = None

\* some (instance, requested and offered tier, size) of the multi-instance
\* sweep is rejected by the scheduler
MultiHasFailingPoint ==
    \E i \in 1..Len(instance_types) :
    \E j \in OfferedRequested(instance_types[i]) :
    \E size \in SweptSizes :
        schedule_lpt(events, on_prem_gpus, size,
                     Val(from_instance(instance_types[i], pricing_modes[j])),
                     FALSE) = None

\* C20: when the scheduler rejects a swept configuration, either sweep ends
\* by raising and returns no list; a list is returned only when no swept
\* configuration is rejected, and it then holds one entry per configuration,
\* each with the cost and time of its own scheduler run.
C20_SweepsPropagateErrors ==
    /\ pc \in {"sweep_raised", "multi_raised"} => result = None
    /\ (pc \in {"sweep", "sweep_done", "sweep_raised"} /\ SweepHasFailingPoint)
           => /\ pc # "sweep_done"
              /\ result = None
    /\ (pc \in {"multi_pricing", "multi_c", "multi_done", "multi_raised"}
        /\ MultiHasFailingPoint)
           => /\ pc # "multi_done"
              /\ result = None
    /\ pc = "sweep_done"
           => /\ Len(Val(result)) = Cardinality(SweptSizes)
              /\ \A k \in 1..Len(Val(result)) :
                     LET run == schedule_lpt(events, on_prem_gpus,
                                    Val(result)[k][4], cloud_model, FALSE)
                     IN /\ run # None
                        /\ Val(result)[k] = SweepTuple(Val(run), Val(result)[k][4])
    /\ pc = "multi_done"
           => Len(Val(result))
                 = SumSeq([i \in 1..Len(instance_types) |->
                      Cardinality(OfferedRequested(instance_types[i]))
                        * Cardinality(SweptSizes)])

\* the multi-instance sweep has raised on a site without fixed processors,
\* two instance types requested
C20_Witness ==
    /\ pc = "multi_raised"
    /\ on_prem_gpus = 0
    /\ Len(instance_types) = 2
    /\ events # <<>>
    /\ MultiHasFailingPoint
    /\ result = None

\* the single-model sweep has raised at size 0 with larger sizes to come
C20_WitnessSweep ==
    /\ pc = "sweep_raised"
    /\ on_prem_gpus = 0
    /\ max_cloud_containers = 3
    /\ SweepHasFailingPoint
    /\ result = None

----------------------------------------------------------------------------
(* Specification SpecConc: several schedule_lpt invocations on one job     *)
(* list, one per elastic-pool size, interleaved pop by pop and push by     *)
(* push.  events, on_prem_gpus and cloud_model are the shared arguments;   *)
(* calls[i] holds the locals of invocation i.                              *)

MaxCalls == 2
ConcLens == {0, 2, 3}
ConcGpus == {0, 1, 2}

ConcModels ==
    {CloudCostModel(2, None, FALSE, 4, s, 0, 1, r, "g4dn.xlarge", None) :
        s \in Startups, r \in {None, Some(1)}}

\* the locals of an invocation that has not started: only its argument
\* cloud_containers is set
CallLocals(containers) ==
    [pc |-> "call",
     cloud_containers |-> containers,
     sorted_events |-> <<>>,
     heap |-> {},
     popped |-> None,
     cloud_event_count |-> 0,
     on_prem_event_count |-> 0,
     total_cloud_cost |-> 0,
     assignments |-> None,
     result |-> None]

\* scheduler.py:68: heapq.heappop(heap) into (load, proc_id, is_cloud)
PopEntry(loc) ==
    LET top == HeapMin(loc.heap)
    IN [loc EXCEPT !.heap = loc.heap \ {top}, !.popped = Some(top), !.pc = "push"]

\* scheduler.py:70-89: the rest of the iteration, ending with heappush
PushEntry(loc, m) ==
    LET e == Head(loc.sorted_events)
        load == Val(loc.popped)[1]
        proc_id == Val(loc.popped)[2]
        is_cloud == Val(loc.popped)[3]
        event_time == IF is_cloud
                      THEN event_cloud_time_for(m, e.processing_time_sec)
                      ELSE e.processing_time_sec
    IN [loc EXCEPT
          !.heap = loc.heap \cup {<<load + event_time, proc_id, is_cloud>>},
          !.popped = None,
          !.cloud_event_count = @ + (IF is_cloud THEN 1 ELSE 0),
          !.on_prem_event_count = @ + (IF is_cloud THEN 0 ELSE 1),
          !.total_cloud_cost =
              @ + (IF is_cloud THEN event_cloud_cost_for(m, e.processing_time_sec)
                   ELSE 0),
          !.assignments =
              IF loc.assignments # None
              THEN Some(Append(Val(loc.assignments),
                               EventAssignment(e, is_cloud, proc_id, event_time)))
              ELSE None,
          !.sorted_events = Tail(loc.sorted_events),
          !.pc = "pop"]

\* faulty variant: the heap is one list shared by all invocations
StoreLocals_SharedHeap(cs, i, loc) ==
    [j \in DOMAIN cs |-> IF j = i THEN loc ELSE [cs[j] EXCEPT !.heap = loc.heap]]

\* scheduler.py:56-65: heap, counters and assignment list are locals of the
\* invocation that writes them
StoreLocals(cs, i, loc) == [cs EXCEPT ![i] = loc]

InitConc ==
    /\ IdlePareto
    /\ IdleIngest
    /\ pc = "conc"
    /\ events \in {MakeEvents(d) : d \in UNION {[1..k -> 1..2] : k \in ConcLens}}
    /\ on_prem_gpus \in ConcGpus
    /\ cloud_model \in ConcModels
    /\ track_assignments = TRUE
    /\ calls = [i \in 1..MaxCalls |-> CallLocals(i - 1)]
    /\ cloud_containers = 0
    /\ sorted_events = <<>> /\ heap = {}
    /\ cloud_event_count = 0 /\ on_prem_event_count = 0
    /\ total_cloud_cost = 0 /\ assignments = None
    /\ result = None
    /\ IdleCost
    /\ IdleSweep

ConcUnchanged ==
    UNCHANGED <<pc, schedVars, result, costVars, sweepVars, paretoVars, ingestVars>>

\* scheduler.py:48-49 in invocation i
CallRaise(i) ==
    /\ calls[i].pc = "call"
    /\ NoProcessor(on_prem_gpus, calls[i].cloud_containers)
    /\ calls' = StoreLocals(calls, i, [calls[i] EXCEPT !.pc = "raised"])
    /\ ConcUnchanged

\* scheduler.py:51-65 in invocation i
CallStart(i) ==
    /\ calls[i].pc = "call"
    /\ ~NoProcessor(on_prem_gpus, calls[i].cloud_containers)
    /\ LET st == LoopStart(on_prem_gpus, calls[i].cloud_containers, cloud_model,
                           track_assignments)
       IN calls' = StoreLocals(calls, i,
              [calls[i] EXCEPT
                 !.pc = "pop",
                 !.sorted_events = SortedDesc(events),
                 !.heap = st.heap,
                 !.cloud_event_count = st.cloud_event_count,
                 !.on_prem_event_count = st.on_prem_event_count,
                 !.total_cloud_cost = st.total_cloud_cost,
                 !.assignments = st.assignments])
    /\ ConcUnchanged

\* scheduler.py:68 in invocation i
CallPop(i) ==
    /\ calls[i].pc = "pop"
    /\ calls[i].sorted_events # <<>>
    /\ calls' = StoreLocals(calls, i, PopEntry(calls[i]))
    /\ ConcUnchanged

\* scheduler.py:70-89 in invocation i
CallPush(i) ==
    /\ calls[i].pc = "push"
    /\ calls' = StoreLocals(calls, i, PushEntry(calls[i], cloud_model))
    /\ ConcUnchanged

\* scheduler.py:91-118 in invocation i
CallReturn(i) ==
    /\ calls[i].pc = "pop"
    /\ calls[i].sorted_events = <<>>
    /\ calls' = StoreLocals(calls, i,
           [calls[i] EXCEPT
              !.pc = "done",
              !.heap = {},
              !.result = Some(BatchResult(calls[i], on_prem_gpus,
                                          calls[i].cloud_containers, Len(events)))])
    /\ ConcUnchanged

NextConc ==
    \E i \in 1..MaxCalls :
        \/ CallRaise(i)
        \/ CallStart(i)
        \/ CallPop(i)
        \/ CallPush(i)
        \/ CallReturn(i)

SpecConc == InitConc /\ [][NextConc]_vars

\* what invocation i returns when it runs alone
AloneResult(i) ==
    schedule_lpt(events, on_prem_gpus, calls[i].cloud_containers, cloud_model,
                 track_assignments)

\* C21: however the pops and pushes of the invocations interleave, every
\* invocation that raises or returns does what the same call does alone and
\* returns the same BatchResult, and the shared job list, site and cost
\* model are never written.
C21_InterleavedCallsIndependent ==
    /\ \A i \in 1..MaxCalls :
           /\ calls[i].pc = "done" => calls[i].result = AloneResult(i)
           /\ calls[i].pc = "raised"
                  => (AloneResult(i) = None /\ calls[i].result = None)
    /\ \A i \in 1..Len(events) :
           events[i] = Event(i, events[i].event_type, events[i].processing_time_sec)

\* invocation 2 has returned a run with a job on its elastic processor
\* while invocation 1 holds an entry it has popped and not pushed back
C21_Witness ==
    /\ pc = "conc"
    /\ Len(events) = 3
    /\ on_prem_gpus = 1
    /\ calls[2].pc = "done"
    /\ Val(calls[2].result).events_on_cloud >= 1
    /\ calls[1].pc = "push"
    /\ calls[1].on_prem_event_count = 1

----------------------------------------------------------------------------
(* Specification SpecIngest: load_onprem_results builds the job list row   *)
(* by row, then schedule_lpt runs on it.  A row is                         *)
(* <<processing time, c3d_valid>>; require_valid_c3d has its default, True *)

MaxRows == 2
RawDurations == {-1, 0, 1, 2}
IngestMins == {-1, 0, 1}

IngestModel == CloudCostModel(2, None, FALSE, 4, 2, 0, 1, None, "g4dn.xlarge", None)

InitIngest ==
    /\ IdlePareto
    /\ IdleConc
    /\ pc = "load"
    /\ raw_events \in SeqsUpTo(RawDurations \X BOOLEAN, MaxRows)
    /\ min_processing_time \in IngestMins
    /\ row_i = 0
    /\ events = <<>>
    /\ on_prem_gpus \in {0, 1}
    /\ cloud_containers \in {0, 1}
    /\ cloud_model = IngestModel
    /\ track_assignments = TRUE
    /\ sorted_events = <<>> /\ heap = {}
    /\ cloud_event_count = 0 /\ on_prem_event_count = 0
    /\ total_cloud_cost = 0 /\ assignments = None
    /\ result = None
    /\ IdleCost
    /\ IdleSweep

\* the row the loop is at
CurRow == raw_events[row_i + 1]

\* loaders.py:135-138: the row is left out
RowSkipped(row, min) == row[1] < min \/ ~row[2]

LoadUnchanged ==
    UNCHANGED <<on_prem_gpus, cloud_containers, cloud_model, track_assignments,
                sorted_events, heap, cloud_event_count, on_prem_event_count,
                total_cloud_cost, assignments, result, costVars, sweepVars,
                paretoVars, concVars, raw_events, min_processing_time>>

\* loaders.py:135-138: continue
LoadSkip ==
    /\ pc = "load"
    /\ row_i < Len(raw_events)
    /\ RowSkipped(CurRow, min_processing_time)
    /\ row_i' = row_i + 1
    /\ UNCHANGED <<pc, events>>
    /\ LoadUnchanged

\* loaders.py:142-156: Event(...) validates and the record is appended
LoadEvent ==
    /\ pc = "load"
    /\ row_i < Len(raw_events)
    /\ ~RowSkipped(CurRow, min_processing_time)
    /\ EventValid(CurRow[1])
    /\ events' = Append(events, Event(row_i + 1, "Batting", CurRow[1]))
    /\ row_i' = row_i + 1
    /\ UNCHANGED pc
    /\ LoadUnchanged

\* loaders.py:142: Event(...) raises pydantic's ValidationError, which
\* leaves the loader
LoadValidationError ==
    /\ pc = "load"
    /\ row_i < Len(raw_events)
    /\ ~RowSkipped(CurRow, min_processing_time)
    /\ ~EventValid(CurRow[1])
    /\ pc' = "validation_error"
    /\ UNCHANGED <<events, row_i>>
    /\ LoadUnchanged

\* loaders.py:158: return events; the list goes to schedule_lpt
LoadReturn ==
    /\ pc = "load"
    /\ row_i = Len(raw_events)
    /\ pc' = "call"
    /\ UNCHANGED <<events, row_i>>
    /\ LoadUnchanged

NextIngest ==
    \/ LoadSkip
    \/ LoadEvent
    \/ LoadValidationError
    \/ LoadReturn
    \/ Next

SpecIngest == InitIngest /\ [][NextIngest]_vars

\* the loader has ended, by returning or by raising
LoadEnded == pc # "load"

\* a row with a zero or negative duration was read
SomeNonPositiveRow == \E k \in 1..Len(raw_events) : raw_events[k][1] <= 0

C22_WitnessValidationError ==
    /\ pc = "validation_error"
    /\ min_processing_time = 0
    /\ Len(events) = 1
    /\ CurRow = <<0, TRUE>>

----------------------------------------------------------------------------
(* Further properties of Spec: the placement loop, step by step *)

\* the jobs still to place are in non-increasing order of local duration
NonIncreasing(evs) ==
    \A k \in 1..(Len(evs) - 1) :
        evs[k].processing_time_sec >= evs[k + 1].processing_time_sec

\* the load of processor p in heap h
LoadOf(h, p) == (CHOOSE e \in h : e[2] = p)[1]

\* C23: jobs are placed in non-increasing order of local duration; each
\* placement picks a processor whose load is minimal among all
\* on_prem_gpus + cloud_containers processors, adds to that load exactly the
\* job's effective duration (the local duration on a fixed processor, the
\* cost-model duration with transfer time on an elastic one) and leaves
\* every other processor's load as it was.
C23_PlacementStep ==
    [][(pc = "loop" /\ sorted_events # <<>>) =>
         /\ NonIncreasing(sorted_events)
         /\ sorted_events' = Tail(sorted_events)
         /\ {e[2] : e \in heap} = Procs
         /\ Cardinality(heap) = Cardinality(Procs)
         /\ {e[2] : e \in heap'} = Procs
         /\ Cardinality(heap') = Cardinality(Procs)
         /\ \E p \in Procs :
                /\ \A q \in Procs : LoadOf(heap, p) <= LoadOf(heap, q)
                /\ LoadOf(heap', p)
                       = LoadOf(heap, p)
                           + SpecDuration(p, Head(sorted_events).processing_time_sec)
                /\ \A q \in Procs \ {p} : LoadOf(heap', q) = LoadOf(heap, q)
      ]_vars

\* in the middle of a run on one fixed and two elastic processors: a job
\* has gone to each pool and another is to be placed
C23_Witness ==
    /\ pc = "loop"
    /\ on_prem_gpus = 1 /\ cloud_containers = 2
    /\ Len(events) = 3
    /\ Len(sorted_events) = 1
    /\ cloud_event_count = 1
    /\ on_prem_event_count = 1
    /\ events[1].processing_time_sec < events[3].processing_time_sec

----------------------------------------------------------------------------
(* Further properties of SpecSweep: the sizes swept *)

\* the elastic sizes of the points accumulated so far, in list order
SizesOf(pts) == [k \in 1..Len(pts) |-> pts[k][4]]

\* C24 as stated: a returned sweep starts with the size-0 point and ends
\* with the size-max point, whatever max and step are.
C24_BothEndsAlways ==
    pc = "sweep_done" =>
        /\ SizesOf(Swept)[1] = 0
        /\ SizesOf(Swept)[Len(Swept)] = max_cloud_containers

\* C24: the scheduler runs once for each size 0, step, 2 step, ... not
\* above max, in increasing order, and the returned list holds exactly
\* these sizes, one point each; size 0 is always among them, size max only
\* when step divides max.
C24_SweptSizesAreMultiplesOfStep ==
    /\ pc = "sweep" =>
           /\ c = Len(points) * step
           /\ SizesOf(points) = [k \in 1..Len(points) |-> (k - 1) * step]
    /\ pc = "sweep_done" =>
           /\ SizesOf(Swept) = [k \in 1..Len(Swept) |-> (k - 1) * step]
           /\ {SizesOf(Swept)[k] : k \in 1..Len(Swept)} = SweptSizes
           /\ SizesOf(Swept)[1] = 0
           /\ HasMaxPoint <=> max_cloud_containers % step = 0
           /\ \A k \in 1..Len(Swept) :
                  Swept[k] = SweepTuple(Val(schedule_lpt(events, on_prem_gpus,
                                 SizesOf(Swept)[k], cloud_model, FALSE)),
                                 SizesOf(Swept)[k])

\* max 3 swept in steps of 2: the sizes are 0 and 2, size 3 is not run
C24_Witness ==
    /\ pc = "sweep_done"
    /\ max_cloud_containers = 3 /\ step = 2
    /\ events # <<>>
    /\ SizesOf(Swept) = <<0, 2>>

----------------------------------------------------------------------------
(* Further properties of SpecOptimal: an axis on which the flagged points  *)
(* do not differ                                                           *)

CostDegenerate == FlaggedMinCost = FlaggedMaxCost
TimeDegenerate == FlaggedMinTime = FlaggedMaxTime

\* the score the call computes for a flagged point
ScoreOf(p) ==
    calculate_weighted_score(p.cost, p.time, cost_weight,
        <<FlaggedMinCost, FlaggedMaxCost>>, <<FlaggedMinTime, FlaggedMaxTime>>)

\* C25: when the flagged points all have the same cost, the call returns a
\* point, the cost axis adds 0 to every score, which is then the weighted
\* time term alone, and the point returned has the least such term (the
\* least time whenever time has a positive weight); likewise with cost and
\* time exchanged.  A single flagged point is returned as it is.
C25_DegenerateAxis ==
    (pc = "find_done" /\ Flagged # {}) =>
        /\ CostDegenerate =>
               /\ result # None
               /\ \A p \in Flagged :
                      ScoreOf(p) = <<0, (WeightDen - cost_weight)
                                            * (p.time - FlaggedMinTime)>>
               /\ \A p \in Flagged :
                      (WeightDen - cost_weight) * Val(result).time
                          <= (WeightDen - cost_weight) * p.time
               /\ cost_weight < WeightDen => Val(result).time = FlaggedMinTime
        /\ TimeDegenerate =>
               /\ result # None
               /\ \A p \in Flagged :
                      ScoreOf(p) = <<0, cost_weight * (p.cost - FlaggedMinCost)>>
               /\ \A p \in Flagged :
                      cost_weight * Val(result).cost <= cost_weight * p.cost
               /\ cost_weight > 0 => Val(result).cost = FlaggedMinCost
        /\ Cardinality(Flagged) = 1 => Val(result) \in Flagged

\* three flagged points of one cost and three different times; the fastest
\* is the last and is returned
C25_Witness ==
    /\ pc = "find_done"
    /\ cost_weight = 5
    /\ Len(pareto_points) = 3
    /\ Cardinality(Flagged) = 3
    /\ CostDegenerate
    /\ pareto_points[1].time > pareto_points[2].time
    /\ pareto_points[2].time > pareto_points[3].time
    /\ result = Some(pareto_points[3])

\* the single-point frontier
C25_WitnessSinglePoint ==
    /\ pc = "find_done"
    /\ Len(pareto_points) = 1
    /\ Cardinality(Flagged) = 1
    /\ result = Some(pareto_points[1])

----------------------------------------------------------------------------
(* Specification SpecIds: generate_multi_instance_sweep over instance
   lists in which two differently named instances carry the same GPU
   label, as the g4dn sizes of one family do (InstanceType.name and
   InstanceType.gpu are independent free-form strings, schemas.py:10-11) *)

IdInstances ==
    {InstanceType("g4dn.xlarge", "Tesla T4", 1000, 500, Some(700), Some(400), 2),
     InstanceType("g4dn.2xlarge", "Tesla T4", 2000, 500, Some(0), None, 1),
     InstanceType("p3.2xlarge", "Tesla V100", 3000, 300, None, None, 1)}

InitIds ==
    /\ IdlePareto
    /\ IdleConc
    /\ IdleIngest
    /\ pc = "multi_pricing"
    /\ events \in MultiEventLists
    /\ on_prem_gpus \in 0..MaxGpus
    /\ instance_types \in DistinctSeqs(IdInstances, MaxInstances)
    /\ pricing_modes \in DistinctSeqs(PricingTiers, 2)
    /\ max_cloud_containers \in MultiMax
    /\ step \in MultiSteps
    /\ inst_i = 1
    /\ pricing_j = 1
    /\ c = 0
    /\ points = <<>>
    /\ result = None
    /\ cloud_model = NoModel
    /\ cloud_containers = 0
    /\ track_assignments = FALSE /\ sorted_events = <<>> /\ heap = {}
    /\ cloud_event_count = 0 /\ on_prem_event_count = 0
    /\ total_cloud_cost = 0 /\ assignments = None
    /\ IdleCost

SpecIds == InitIds /\ [][NextMulti]_vars

\* the instances of the list have pairwise distinct names
DistinctNames ==
    \A i, j \in 1..Len(instance_types) :
        i # j => instance_types[i].name # instance_types[j].name

\* the tier list has no repeats
DistinctTiers ==
    \A i, j \in 1..Len(pricing_modes) :
        i # j => pricing_modes[i] # pricing_modes[j]

\* C26: in a multi-instance sweep over instances with pairwise distinct
\* names and a tier list without repeats, the config identifiers of the
\* returned tuples are pairwise distinct: two tuples with the same
\* identifier have the same instance name, pricing tier and pool size.
C26_ConfigIdDeterminesTuple ==
    (pc = "multi_done" /\ DistinctNames /\ DistinctTiers) =>
        \A i, j \in 1..Len(Val(result)) :
            Val(result)[i][1] = Val(result)[j][1] =>
                /\ i = j
                /\ Val(result)[i][4] = Val(result)[j][4]
                /\ Val(result)[i][5] = Val(result)[j][5]
                /\ Val(result)[i][6] = Val(result)[j][6]

----------------------------------------------------------------------------
(* Further properties of Spec: the counts and the assignment list *)

\* C27: every job of the input is placed on exactly one processor:
\* events_on_prem + events_on_cloud = total_events = the number of input
\* jobs; with track_assignments the list holds exactly one record per job
\* (repeated durations included), each with a processor_id of an existing
\* processor and the pool label "cloud" exactly when processor_id >=
\* on_prem_gpus, and the records per pool add up to the two counts; without
\* track_assignments there is no list.
C27_EveryJobPlacedOnce ==
    Returned =>
        /\ Res.events_on_prem + Res.events_on_cloud = Res.total_events
        /\ Res.total_events = Len(events)
        /\ track_assignments =>
               /\ Res.assignments # None
               /\ LET as == Val(Res.assignments)
                  IN /\ Len(as) = Len(events)
                     /\ \A n \in 1..Len(events) :
                            Cardinality({i \in 1..Len(as) :
                                            as[i].event_name = events[n].event_name}) = 1
                     /\ \A i \in 1..Len(as) :
                            /\ as[i].processor_id \in Procs
                            /\ as[i].assigned_to \in {"cloud", "on_prem"}
                            /\ as[i].assigned_to = "cloud"
                                   <=> as[i].processor_id >= on_prem_gpus
                            /\ as[i].processing_time_sec
                                   = events[as[i].event_name].processing_time_sec
                     /\ Cardinality({i \in 1..Len(as) : as[i].assigned_to = "cloud"})
                            = Res.events_on_cloud
                     /\ Cardinality({i \in 1..Len(as) : as[i].assigned_to = "on_prem"})
                            = Res.events_on_prem
        /\ ~track_assignments => Res.assignments = None

\* three jobs, two of them of the same duration, spread over both pools
C27_Witness ==
    /\ Returned
    /\ track_assignments
    /\ on_prem_gpus = 1 /\ cloud_containers = 2
    /\ Len(events) = 3
    /\ events[1].processing_time_sec = events[2].processing_time_sec
    /\ Res.events_on_cloud = 2
    /\ Res.events_on_prem = 1

\* the load of processor p just before the i-th placement, from the
\* records of the earlier placements
LoadBefore(p, i) ==
    StartOffset(p)
    + SumSeq([k \in 1..(i - 1) |->
                 IF Tracked[k].processor_id = p
                 THEN Tracked[k].effective_time_sec ELSE 0])

\* the processors of least load just before the i-th placement
LeastLoaded(i) ==
    LET loads == [p \in Procs |-> LoadBefore(p, i)]
    IN {p \in Procs : \A q \in Procs : loads[p] <= loads[q]}

\* C28: among the processors that tie for the least load the job goes to
\* the one with the lowest index (stated of the latest placement in every
\* state of the loop, hence of every placement); a tie between a fixed and an elastic
\* processor therefore goes to the fixed one; and with zero start-up
\* overhead and at most on_prem_gpus jobs no job goes to the elastic pool
\* and the cost is 0.
C28_TieGoesToLowestIndex ==
    /\ (pc = "loop" /\ assignments # None /\ Tracked # <<>>) =>
           LET i == Len(Tracked)
               least == LeastLoaded(i)
           IN /\ Tracked[i].processor_id \in least
              /\ \A q \in least : Tracked[i].processor_id <= q
              /\ (least \cap FixedProcs # {})
                     => Tracked[i].assigned_to = "on_prem"
    /\ (Returned /\ cloud_model.container_startup_sec = 0
                 /\ Len(events) <= on_prem_gpus) =>
           /\ Res.events_on_cloud = 0
           /\ Res.cloud_cost = 0

\* two jobs on two fixed and two elastic processors without start-up
\* overhead: all four tie at load 0 for the first job, three for the second
C28_Witness ==
    /\ Returned
    /\ assignments # None
    /\ cloud_model.container_startup_sec = 0
    /\ on_prem_gpus = 2 /\ cloud_containers = 2
    /\ Len(events) = 2
    /\ Cardinality(LeastLoaded(1)) = 4
    /\ Cardinality(LeastLoaded(2)) = 3
    /\ Tracked[1].processor_id = 0
    /\ Tracked[2].processor_id = 1
    /\ Res.events_on_cloud = 0

----------------------------------------------------------------------------
(* Further properties of SpecPareto: the flagged points cover the rest *)

\* point j of the list out is at least as good as point i on both axes
\* and better on one
BetterIn(out, j, i) ==
    /\ out[j].cost <= out[i].cost
    /\ out[j].time <= out[i].time
    /\ (out[j].cost < out[i].cost \/ out[j].time < out[i].time)

\* C29: in the output of each of the three passes every point that is not
\* flagged is dominated by a flagged point; so a non-empty output has a
\* flagged point, find_optimal_configuration never finds its list of
\* flagged points empty on it, and what it returns for any weight is one of
\* the flagged points.
C29_FlaggedPointsDominateTheRest ==
    PassEnded =>
        LET out == Val(result)
        IN /\ \A i \in 1..Len(out) :
                  ~out[i].is_pareto_optimal =>
                      \E j \in 1..Len(out) :
                          out[j].is_pareto_optimal /\ BetterIn(out, j, i)
           /\ out # <<>> =>
                  /\ \E j \in 1..Len(out) : out[j].is_pareto_optimal
                  /\ OptimalOnly(out) # <<>>
                  /\ \A w \in OptWeights :
                         \E j \in 1..Len(out) :
                             /\ out[j].is_pareto_optimal
                             /\ find_optimal_configuration(out, w) = Some(out[j])

\* a chain: the third point is dominated by the second, which is itself
\* dominated by the first, the only flagged point
C29_Witness ==
    /\ PassEnded
    /\ Len(Val(result)) = 3
    /\ Val(result)[1].is_pareto_optimal
    /\ ~Val(result)[2].is_pareto_optimal
    /\ ~Val(result)[3].is_pareto_optimal
    /\ BetterIn(Val(result), 2, 3)
    /\ BetterIn(Val(result), 1, 2)

----------------------------------------------------------------------------
(* Specification SpecFrontier: a single-instance sweep followed by the
   dominance pass over the returned tuples, as the pages chain them *)

\* pages/1_Pareto_Frontier.py:240-241: frontier = compute_pareto_frontier(sweep)
ComputeFrontierOfSweep ==
    /\ pc = "sweep_done"
    /\ pareto_points' = compute_pareto_frontier(Val(result))
    /\ pc' = "frontier_done"
    /\ UNCHANGED <<result, cost_weight>>
    /\ UNCHANGED <<concVars, ingestVars>>
    /\ UNCHANGED <<schedVars, costVars, sweepVars>>

NextFrontier == NextSweep \/ ComputeFrontierOfSweep

SpecFrontier == InitSweep /\ [][NextFrontier]_vars

\* every job of the input has a strictly positive cost on an elastic
\* processor
ElasticJobsCost ==
    \A n \in 1..Len(events) :
        event_cloud_cost_for(cloud_model, events[n].processing_time_sec) > 0

\* C30: in a single-instance sweep with at least one fixed processor and a
\* cost model under which every job placed on an elastic processor costs
\* something, the size-0 baseline is flagged Pareto-optimal by
\* compute_pareto_frontier; every swept point of cost 0 has a makespan at
\* least the baseline's.
C30_BaselineIsFlagged ==
    (pc = "frontier_done" /\ on_prem_gpus >= 1 /\ ElasticJobsCost) =>
        /\ Len(pareto_points) = Len(Swept)
        /\ pareto_points[1].cloud_containers = 0
        /\ pareto_points[1].cost = 0
        /\ pareto_points[1].is_pareto_optimal
        /\ \A i \in 1..Len(Swept) :
               Swept[i][2] = 0 => Swept[i][3] >= BaselinePoint[3]

\* a sweep with a second point of cost 0: its elastic processor, still
\* starting up when the fixed pool has finished, got no job; the baseline
\* is flagged and that slower point is not
C30_Witness ==
    /\ pc = "frontier_done"
    /\ on_prem_gpus >= 1
    /\ events # <<>>
    /\ ElasticJobsCost
    /\ pareto_points[1].is_pareto_optimal
    /\ \E i \in 2..Len(Swept) :
           /\ Swept[i][2] = 0
           /\ Swept[i][3] > BaselinePoint[3]
           /\ ~pareto_points[i].is_pareto_optimal

\* a sweep with a dearer and faster point: it and the baseline are flagged
C30_WitnessFasterPoint ==
    /\ pc = "frontier_done"
    /\ on_prem_gpus >= 1
    /\ ElasticJobsCost
    /\ pareto_points[1].is_pareto_optimal
    /\ \E j \in 2..Len(Swept) :
           /\ Swept[j][2] > 0
           /\ Swept[j][3] < BaselinePoint[3]
           /\ pareto_points[j].is_pareto_optimal

\* without the cost condition the baseline can lose its flag: elastic jobs
\* that cost nothing make a cost-0 point faster than the baseline
C30_WitnessFreeElasticJobs ==
    /\ pc = "frontier_done"
    /\ on_prem_gpus >= 1
    /\ ~ElasticJobsCost
    /\ ~pareto_points[1].is_pareto_optimal

====
